---------------------------- MODULE Spec2Model ----------------------------
(***************************************************************************)
(* Model of the Nexus streaming indexer (packages/indexer-py):             *)
(*   chunker.py   chunk_content, the line-window generator                 *)
(*   database.py  the SQLite store (files, chunks, chunks_fts)             *)
(*   scanner.py   scan_workspace_sync, the per-file scan loop              *)
(*   scanner.py   walk_files, the directory walker                         *)
(*   main.py      cmd_index, which opens the store, scans and closes it    *)
(*                                                                         *)
(* A text is a sequence of one-character strings; a line is a text         *)
(* without newline.  Python's None is the string "None".                   *)
(***************************************************************************)
EXTENDS Integers, Sequences, FiniteSets, TLC

VARIABLES
    gen,        \* the frame of one chunk_content generator (chunker.py)
    fs,         \* the workspace: path -> text of the file, or Absent
    committed,  \* the store as durably committed (what another connection reads)
    conn,       \* the store as the scanning connection sees it (committed + open transaction)
    pc,         \* position of cmd_index / scan_workspace_sync
    params,     \* arguments of the running scan (max_files, max_file_size, max_chunk_lines)
    walker,     \* paths walk_files has still to yield in this run
    cur,        \* locals of the per-file body (rel_path, content, file_id, chunks, ...)
    result,     \* the result dict of scan_workspace_sync
    hist,       \* history of the run: store at its start, per-path outcome, previous run's failures
    tree,       \* the directory tree walk_files runs over: a set of entries
    walk,       \* the frames of one walk_files generator
    srch,       \* the last search_fts call: its arguments and what it returned
    cli,        \* the root directory, the store file and the last command's exit
    held,       \* the paths whose text the locals of scan_workspace_sync still refer to
    ctx         \* the context store (src/ralph/db) and the clients calling it

vars == <<gen, fs, committed, conn, pc, params, walker, cur, result, hist, tree, walk, srch, cli, held, ctx>>

scanVars == <<fs, committed, conn, pc, params, walker, cur, result, hist, held>>

None == "None"

NL == "\n"

Min(a, b) == IF a < b THEN a ELSE b

Max(a, b) == IF a > b THEN a ELSE b

(***************************************************************************)
(* Bounds of the model.                                                    *)
(***************************************************************************)
MaxTextLen == 4

MaxParam == 3

(***************************************************************************)
(* Defaults of chunk_content's keyword arguments.                          *)
(***************************************************************************)
DefaultMaxLines == 80
DefaultOverlap == 5

DefaultMinLines == 3

Chars == {"a", NL}

Texts == UNION {[1..n -> Chars] : n \in 0..MaxTextLen}

(***************************************************************************)
(* chunker.py                                                              *)
(***************************************************************************)

\* The position of the k-th newline of the text; 0 stands before the text
\* and the position after the last character closes the last piece.
NewlineAt(text, k) ==
    LET nl == {i \in 1..Len(text) : text[i] = NL}
    IN  IF k = 0 THEN 0
        ELSE IF k > Cardinality(nl) THEN Len(text) + 1
        ELSE CHOOSE i \in nl : Cardinality({j \in nl : j <= i}) = k

\* str.split("\n"): the pieces between the newlines; never the empty list.
Split(text) ==
    LET n == Cardinality({i \in 1..Len(text) : text[i] = NL}) + 1
    IN  [k \in 1..n |->
            SubSeq(text, NewlineAt(text, k - 1) + 1, NewlineAt(text, k) - 1)]

\* "\n".join(lines), joining the two halves of a long list separately.
RECURSIVE Join(_)
Join(ls) ==
    IF Len(ls) = 0 THEN <<>>
    ELSE IF Len(ls) = 1 THEN ls[1]
    ELSE LET h == Len(ls) \div 2
         IN  Join(SubSeq(ls, 1, h)) \o <<NL>> \o Join(SubSeq(ls, h + 1, Len(ls)))

\* Python's s[lo:hi]: a negative index counts from the end, and both are
\* clamped to the sequence.
PySlice(s, lo, hi) ==
    LET n  == Len(s)
        h  == IF hi < 0 THEN Max(hi + n, 0) ELSE Min(hi, n)
        l  == IF lo < 0 THEN Max(lo + n, 0) ELSE Min(lo, n)
    IN  IF l >= h THEN <<>> ELSE SubSeq(s, l + 1, h)

\* extract_symbol: without a language, or with one that has no pattern, there
\* is no symbol and no kind.  With a pattern, pattern.search finds nothing in
\* a text over Chars (no declaration keyword can be spelled), so the result
\* is (None, None) as well.
ExtractSymbol(text, language) == [symbol |-> None, kind |-> None]

\* The generator's frame right after the call, before the first next().
NewGen(content, max_lines, overlap, min_lines, language) ==
    [content     |-> content,
     max_lines   |-> max_lines,
     overlap     |-> overlap,
     min_lines   |-> min_lines,
     language    |-> language,
     lines       |-> Split(content),
     total_lines |-> Len(Split(content)),
     start       |-> 0,
     prev_start  |-> -1,
     yielded     |-> <<>>,
     iterations  |-> 0,
     pc          |-> IF Len(Split(content)) = 0 THEN "done" ELSE "loop"]

\* The test of `while start < total_lines`.
LoopCond(g) == g.pc = "loop" /\ g.start < g.total_lines

\* NextStart without the forced advance of `if new_start <= start`.
NextStartUnforced(start, end, overlap) == end - overlap

\* NextStart without the overlap: the next window starts where this one ends.
NextStartNoOverlap(start, end, overlap) == IF end <= start THEN start + 1 ELSE end

\* NextStart with one line of overlap less: new_start = end - overlap + 1.
NextStartOffByOne(start, end, overlap) ==
    IF end - overlap + 1 <= start THEN start + 1 ELSE end - overlap + 1

\* new_start = end - overlap, forced forward when it does not pass start.
NextStart(start, end, overlap) ==
    IF end - overlap <= start THEN start + 1 ELSE end - overlap

\* KeepWindow without the exemption of the first window.
KeepWindowNoExemption(chunk_lines, min_lines, start) == Len(chunk_lines) >= min_lines

\* Whether the window is yielded: `len(chunk_lines) >= min_lines or start == 0`.
KeepWindow(chunk_lines, min_lines, start) ==
    Len(chunk_lines) >= min_lines \/ start = 0

\* One pass through the body of the while loop.
LoopBody(g) ==
    IF g.start = g.prev_start
    THEN [g EXCEPT !.pc = "done", !.iterations = @ + 1]
    ELSE
      LET end         == Min(g.start + g.max_lines, g.total_lines)
          chunk_lines == PySlice(g.lines, g.start, end)
          chunk_text  == Join(chunk_lines)
          sk          == ExtractSymbol(chunk_text, g.language)
          chunk       == [start_line  |-> g.start + 1,
                          end_line    |-> end,
                          content     |-> chunk_text,
                          symbol      |-> sk.symbol,
                          kind        |-> IF sk.kind = None THEN "block" ELSE sk.kind,
                          token_count |-> Len(chunk_text) \div 4]
          out         == IF KeepWindow(chunk_lines, g.min_lines, g.start)
                         THEN Append(g.yielded, chunk) ELSE g.yielded
      IN  IF end >= g.total_lines
          THEN [g EXCEPT !.prev_start = g.start, !.yielded = out,
                         !.iterations = @ + 1, !.pc = "done"]
          ELSE [g EXCEPT !.prev_start = g.start, !.yielded = out,
                         !.iterations = @ + 1,
                         !.start = NextStart(g.start, end, g.overlap)]

\* The generator run to exhaustion: list(chunk_content(...)).
RECURSIVE RunGen(_)
RunGen(g) == IF LoopCond(g) THEN RunGen(LoopBody(g)) ELSE g

ChunkContent(content, max_lines, overlap, min_lines, language) ==
    RunGen(NewGen(content, max_lines, overlap, min_lines, language)).yielded

(***************************************************************************)
(* database.py: the store.  A store value is the content of the three      *)
(* tables plus the AUTOINCREMENT counters kept in sqlite_sequence, which   *)
(* are ordinary rows and therefore part of the transaction.  A files row   *)
(* carries the columns the indexer reads back or derives from the file     *)
(* (id, path, hash, size, lang); mtime, indexed_at, project_id and ignored *)
(* are written by the same statements and read by none of its code paths.  *)
(* chunks_fts holds one entry per trigger firing.                          *)
(***************************************************************************)

EmptyStore ==
    [files      |-> {},
     chunks     |-> {},
     fts        |-> {},
     seq_files  |-> 0,
     seq_chunks |-> 0]

\* get_file_by_path looking the path up under a key no row has.
GetFileByPathMiss(store, path) == {}

\* get_file_by_path: the row of `path` as a one-element set, or {} for None.
GetFileByPath(store, path) == {r \in store.files : r.path = path}

\* upsert_file without its UPDATE, on a table without the UNIQUE constraint:
\* every call inserts.
UpsertFileAlwaysInsert(store, path, content_hash, size, lang) ==
    LET id == store.seq_files + 1
    IN  [store |-> [store EXCEPT
                      !.files = @ \cup {[id |-> id, path |-> path, hash |-> content_hash,
                                         size |-> size, lang |-> lang]},
                      !.seq_files = id],
         id    |-> id]

\* upsert_file: UPDATE ... WHERE path = ?; when no row was updated, INSERT.
\* Returns the store after the statement and the id of the row.
UpsertFile(store, path, content_hash, size, lang) ==
    IF \E r \in store.files : r.path = path
    THEN LET updated == {IF r.path = path
                          THEN [r EXCEPT !.hash = content_hash, !.size = size, !.lang = lang]
                          ELSE r : r \in store.files}
         IN  [store |-> [store EXCEPT !.files = updated],
              id    |-> (CHOOSE r \in store.files : r.path = path).id]
    ELSE LET id == store.seq_files + 1
         IN  [store |-> [store EXCEPT
                           !.files = @ \cup {[id |-> id, path |-> path, hash |-> content_hash,
                                              size |-> size, lang |-> lang]},
                           !.seq_files = id],
              id    |-> id]

\* delete_chunks_for_file deleting nothing.
DeleteNoChunks(store, file_id) == store

\* delete_chunks_for_file without its WHERE clause.
DeleteAllChunks(store, file_id) == [store EXCEPT !.chunks = {}, !.fts = {}]

\* delete_chunks_for_file: DELETE FROM chunks WHERE file_id = ?; the trigger
\* chunks_ad removes the shadow entry of every deleted row.
DeleteChunksForFile(store, file_id) ==
    LET gone == {c \in store.chunks : c.file_id = file_id}
    IN  [store EXCEPT
           !.chunks = @ \ gone,
           !.fts    = @ \ {[rowid |-> c.id, content |-> c.content] : c \in gone}]

\* insert_chunk on a table whose id is not AUTOINCREMENT: the new rowid is
\* one more than the greatest rowid in the table.
InsertChunkRowid(store, file_id, chunk) ==
    LET ids == {c.id : c \in store.chunks}
        id  == IF ids = {} THEN 1 ELSE (CHOOSE m \in ids : \A k \in ids : k <= m) + 1
    IN  [store EXCEPT
           !.chunks = @ \cup {[id |-> id, file_id |-> file_id,
                               start_line |-> chunk.start_line, end_line |-> chunk.end_line,
                               content |-> chunk.content, symbol |-> chunk.symbol,
                               kind |-> chunk.kind]},
           !.fts    = @ \cup {[rowid |-> id, content |-> chunk.content]},
           !.seq_chunks = id]

\* insert_chunk in a schema without the trigger chunks_ai.
InsertChunkNoTrigger(store, file_id, chunk) ==
    LET id == store.seq_chunks + 1
    IN  [store EXCEPT
           !.chunks = @ \cup {[id |-> id, file_id |-> file_id,
                               start_line |-> chunk.start_line, end_line |-> chunk.end_line,
                               content |-> chunk.content, symbol |-> chunk.symbol,
                               kind |-> chunk.kind]},
           !.seq_chunks = id]

\* insert_chunk: INSERT INTO chunks; the trigger chunks_ai adds the shadow entry.
InsertChunk(store, file_id, chunk) ==
    LET id == store.seq_chunks + 1
    IN  [store EXCEPT
           !.chunks = @ \cup {[id |-> id, file_id |-> file_id,
                               start_line |-> chunk.start_line, end_line |-> chunk.end_line,
                               content |-> chunk.content, symbol |-> chunk.symbol,
                               kind |-> chunk.kind]},
           !.fts    = @ \cup {[rowid |-> id, content |-> chunk.content]},
           !.seq_chunks = id]

\* clear_index without its second statement: only DELETE FROM chunks.
ClearChunksOnly(store) ==
    [store EXCEPT !.chunks = {},
                  !.fts = @ \ {[rowid |-> c.id, content |-> c.content] : c \in store.chunks}]

\* clear_index without its first statement: only DELETE FROM files.
ClearFilesOnly(store) == [store EXCEPT !.files = {}]

\* The statements of clear_index: DELETE FROM chunks, where the trigger
\* chunks_ad removes the shadow entry of every row, then DELETE FROM files.
\* The AUTOINCREMENT counters are not reset by a DELETE.
ClearIndex(store) ==
    LET noChunks == [store EXCEPT
                       !.chunks = {},
                       !.fts    = @ \ {[rowid |-> c.id, content |-> c.content]
                                          : c \in store.chunks}]
    IN  [noChunks EXCEPT !.files = {}]

\* get_stats: the two row counts and the number of File rows per language
\* (the model has fewer languages than the LIMIT of the query).
GetStats(store) ==
    [files     |-> Cardinality(store.files),
     chunks    |-> Cardinality(store.chunks),
     languages |-> [l \in {r.lang : r \in {x \in store.files : x.lang # None}} |->
                       Cardinality({r \in store.files : r.lang = l})]]

\* The tokens the shadow index sees in a text: the maximal runs of
\* alphanumeric characters (the letter "a" is the only one in the model).
RECURSIVE TokensFrom(_, _, _)
TokensFrom(text, i, acc) ==
    IF i > Len(text) THEN (IF acc = <<>> THEN <<>> ELSE <<acc>>)
    ELSE IF text[i] = "a" THEN TokensFrom(text, i + 1, Append(acc, text[i]))
    ELSE (IF acc = <<>> THEN <<>> ELSE <<acc>>) \o TokensFrom(text, i + 1, <<>>)

Tokens(text) == TokensFrom(text, 1, <<>>)

\* escaped_query: the query, quoted as one phrase when it holds a space.
EscapedQuery(query) ==
    IF \E i \in DOMAIN query : query[i] = " "
    THEN <<"\"">> \o query \o <<"\"">>
    ELSE query

\* Whether the words of the phrase stand next to each other and in order
\* among the tokens; a phrase of no word is found nowhere.
PhraseIn(phrase, toks) ==
    /\ phrase # <<>>
    /\ \E k \in 0..(Len(toks) - Len(phrase)) :
          \A j \in 1..Len(phrase) : toks[k + j] = phrase[j]

\* Whether the MATCH argument is a quoted string.
IsQuoted(escaped) == escaped # <<>> /\ escaped[1] = "\""

\* chunks_fts MATCH ?: an argument without a word that is not a quoted
\* string (the empty string, or only tabs) is a syntax error.
MatchError(escaped) == ~ IsQuoted(escaped) /\ Tokens(escaped) = <<>>

\* A quoted string is one phrase, which matches a text holding its words
\* next to each other and in order.  Bare words separated by whitespace
\* are an implicit AND: the text must hold each word, anywhere.
Matches(text, escaped) ==
    LET words == Tokens(escaped)
        toks  == Tokens(text)
    IN  IF IsQuoted(escaped)
        THEN PhraseIn(words, toks)
        ELSE /\ words # <<>>
             /\ \A j \in DOMAIN words : PhraseIn(<<words[j]>>, toks)

\* The rows search_fts selects before ordering and LIMIT/OFFSET: the shadow
\* entries matching the query, joined to their chunk and to its file.  A
\* query that raises returns no row.
SearchMatches(store, query) ==
    IF MatchError(EscapedQuery(query)) THEN {}
    ELSE {[id |-> c.id, path |-> f.path, start_line |-> c.start_line,
           end_line |-> c.end_line, content |-> c.content, symbol |-> c.symbol,
           kind |-> c.kind] :
             <<e, c, f>> \in {x \in store.fts \X store.chunks \X store.files :
                                /\ x[1].rowid = x[2].id
                                /\ x[2].file_id = x[3].id
                                /\ Matches(x[1].content, EscapedQuery(query))}}


(***************************************************************************)
(* scanner.py and main.py: the workspace and one scan run.                 *)
(***************************************************************************)

\* A file name is <<stem, extension>>; the workspace is flat, so that a
\* file's name is also its workspace-relative path.
Paths == {<<"a", ".py">>, <<"b", ".md">>}

Absent == <<"absent">>

\* The texts the workspace's files take: the empty file (one empty line, one
\* chunk) and a file of four lines (two chunks when max_chunk_lines is 3).
ScanTexts == {<<>>, <<"a", NL, NL, NL>>}

\* The values of --chunk-lines, --max-files and --max-size of a run.
ChunkLinesArgs == {2, 3}

MaxFilesArgs == {1, 2}

MaxSizeArgs == {3, 4}

\* Number of runs of the indexer in one behaviour.
MaxRuns == 2

\* LANGUAGE_MAP, for the extensions of Paths.
LANGUAGE_MAP == [e \in {".py", ".md"} |-> IF e = ".py" THEN "python" ELSE "markdown"]

\* detect_language: the language of the first extension the name ends with.
DetectLanguage(name) ==
    IF name[2] \in DOMAIN LANGUAGE_MAP THEN LANGUAGE_MAP[name[2]] ELSE None

\* hash_content: a digest of the text.  SHA-256 cut to 64 bits has no
\* collision among the texts of the model; the digest here is the text read
\* as a number in bijective base 2, which has none either.
RECURSIVE HashFrom(_, _, _)
HashFrom(text, i, h) ==
    IF i > Len(text) THEN h
    ELSE HashFrom(text, i + 1, 2 * h + (IF text[i] = NL THEN 2 ELSE 1))

HashContent(text) == HashFrom(text, 1, 0)

\* A byte that is not part of any UTF-8 encoded character.
InvalidByte == "0xFF"

\* Whether the bytes of a file are the encoding of a text.
IsValidText(bytes) == \A i \in DOMAIN bytes : bytes[i] # InvalidByte

\* bytes.decode("utf-8", errors="ignore"), as read_text does: the bytes that
\* do not decode are dropped, and no UnicodeDecodeError is raised.
RECURSIVE DecodeIgnore(_)
DecodeIgnore(bytes) ==
    IF bytes = <<>> THEN <<>>
    ELSE IF Head(bytes) = InvalidByte THEN DecodeIgnore(Tail(bytes))
    ELSE <<Head(bytes)>> \o DecodeIgnore(Tail(bytes))

\* File contents that are not valid text.
BinaryFiles == {<<"a", InvalidByte>>}

\* walk_files over the flat workspace: the files that exist.  No name of
\* Paths is hidden, has a denied extension or matches an ignore pattern.
WalkFiles(files) == {p \in Paths : files[p] # Absent}

NoCur ==
    [rel_path |-> None, file_size |-> 0, content |-> <<>>, content_hash |-> 0,
     existing |-> {}, file_id |-> 0, chunks |-> <<>>, inserted |-> 0]

NoParams == [max_files |-> 0, max_file_size |-> 0, max_chunk_lines |-> 0]

NewResult ==
    [files_scanned  |-> 0,
     files_indexed  |-> 0,
     files_skipped  |-> 0,
     chunks_created |-> 0,
     errors         |-> <<>>,
     stopped_early  |-> FALSE]

NoOutcome == [p \in Paths |-> "none"]

NewHist ==
    [store0    |-> EmptyStore,
     outcome   |-> NoOutcome,
     prev      |-> NoOutcome,
     prevClean |-> FALSE,
     runs      |-> 0,
     assigned  |-> 0]

IdleGen == NewGen(<<>>, 0, 0, 0, None)

\* No walk_files generator is running, over an empty tree.
NoWalk ==
    [pc |-> "idle", max_depth |-> 0, patterns |-> {}, stack |-> <<>>, yielded |-> <<>>,
     consulted |-> {}, failed |-> {}]

WalkIdle ==
    /\ tree = {}
    /\ walk = NoWalk

\* No search_fts call has been made.
NoSearch == [pc |-> "idle"]

SearchIdle == srch = NoSearch

\* The root directory and the store file exist and no command has run.
NoCli == [root_exists |-> TRUE, db_exists |-> TRUE, command |-> "none",
          opened |-> FALSE, exit_code |-> 0, output |-> "none"]

CliIdle == cli = NoCli

\* The processes calling the context store.
Procs == {1, 2}

\* The tables the schema script creates, in the order the operations below
\* need them: observations refers to sessions.
SchemaTables == <<"sessions", "observations">>

\* The writes of one get_connection scope.
NoWrites == [tables |-> {}, sessions |-> {}, observations |-> {}]

\* A process outside every call.
NoProc == [op |-> "none", caller |-> "none", pc |-> "idle", i |-> 1,
           pending |-> NoWrites, made |-> NoWrites, durable |-> NoWrites,
           exc |-> FALSE, closed |-> TRUE, out |-> "none"]

\* No store file yet and every process idle.
NoCtx == [file |-> FALSE, tables |-> {}, sessions |-> {}, observations |-> {},
          seq |-> 0, lock |-> 0, proc |-> [p \in Procs |-> NoProc]]

CtxIdle == ctx = NoCtx

Init ==
    /\ gen = IdleGen
    /\ WalkIdle
    /\ SearchIdle
    /\ CliIdle
    /\ CtxIdle
    /\ fs \in [Paths -> ScanTexts \cup {Absent}]
    /\ committed = EmptyStore
    /\ conn = EmptyStore
    /\ pc = "idle"
    /\ params = NoParams
    /\ walker = {}
    /\ cur = NoCur
    /\ result = NewResult
    /\ hist = NewHist
    /\ held = {}


(***************************************************************************)
(* The workspace changes between two runs of the indexer.                  *)
(***************************************************************************)

\* A file is created or its content replaced (while no scan is running, and
\* while a run is still to come).
WriteFile(p, t) ==
    /\ pc = "idle"
    /\ hist.runs < MaxRuns
    /\ fs[p] # t
    /\ fs' = [fs EXCEPT ![p] = t]
    /\ hist' = [hist EXCEPT !.prev[p] = "none", !.prevClean = FALSE]
    /\ UNCHANGED <<ctx, held, cli, srch, tree, walk, gen, committed, conn, pc, params, walker, cur, result>>

\* A file is removed.
RemoveFile(p) ==
    /\ pc = "idle"
    /\ hist.runs < MaxRuns
    /\ fs[p] # Absent
    /\ fs' = [fs EXCEPT ![p] = Absent]
    /\ hist' = [hist EXCEPT !.prev[p] = "none", !.prevClean = FALSE]
    /\ UNCHANGED <<ctx, held, cli, srch, tree, walk, gen, committed, conn, pc, params, walker, cur, result>>

(***************************************************************************)
(* cmd_index and scan_workspace_sync.                                      *)
(***************************************************************************)

\* cmd_index up to the for loop: init_db opens a connection on the committed
\* store (the schema script creates nothing twice), the result dict is
\* initialised and walk_files is called.
ScanBegin(mf, ms, cl) ==
    /\ pc = "idle"
    /\ hist.runs < MaxRuns
    /\ conn' = committed
    /\ params' = [max_files |-> mf, max_file_size |-> ms, max_chunk_lines |-> cl]
    /\ walker' = WalkFiles(fs)
    /\ result' = NewResult
    /\ cur' = NoCur
    /\ pc' = "pull"
    /\ hist' = [hist EXCEPT !.store0 = committed, !.outcome = NoOutcome, !.runs = @ + 1]
    /\ held' = {}
    /\ UNCHANGED <<ctx, srch, tree, walk, gen, fs, committed>>

\* cmd_index on a root directory that exists.
ScanStart(mf, ms, cl) ==
    /\ ScanBegin(mf, ms, cl)
    /\ UNCHANGED cli

\* PullFile with the ceiling tested by > instead of >=.
PullFileLateCeiling ==
    /\ pc = "pull"
    /\ \/ /\ walker = {}
          /\ pc' = "close"
          /\ UNCHANGED <<walker, result, cur>>
       \/ \E p \in walker :
             /\ walker' = walker \ {p}
             /\ IF result.files_scanned > params.max_files
                THEN /\ result' = [result EXCEPT !.stopped_early = TRUE]
                     /\ pc' = "close"
                     /\ cur' = NoCur
                ELSE /\ result' = [result EXCEPT !.files_scanned = @ + 1]
                     /\ pc' = "stat"
                     /\ cur' = [NoCur EXCEPT !.rel_path = p]
    /\ UNCHANGED <<ctx, held, cli, srch, tree, walk, gen, fs, committed, conn, params, hist>>

\* The head of `for file_path in walk_files(root_path)`: the walker is
\* exhausted, or it yields a path (in directory-listing order, which is any
\* order) and the file-count ceiling is tested.
PullFile ==
    /\ pc = "pull"
    /\ \/ /\ walker = {}
          /\ pc' = "close"
          /\ UNCHANGED <<walker, result, cur>>
       \/ \E p \in walker :
             /\ walker' = walker \ {p}
             /\ IF result.files_scanned >= params.max_files
                THEN /\ result' = [result EXCEPT !.stopped_early = TRUE]
                     /\ pc' = "close"
                     /\ cur' = NoCur
                ELSE /\ result' = [result EXCEPT !.files_scanned = @ + 1]
                     /\ pc' = "stat"
                     /\ cur' = [NoCur EXCEPT !.rel_path = p]
    /\ UNCHANGED <<ctx, held, cli, srch, tree, walk, gen, fs, committed, conn, params, hist>>

\* StatFile without the size test.
StatFileNoCeiling ==
    /\ pc = "stat"
    /\ cur' = [cur EXCEPT !.file_size = Len(fs[cur.rel_path])]
    /\ pc' = "read"
    /\ UNCHANGED <<ctx, held, cli, srch, tree, walk, gen, fs, committed, conn, params, walker, result, hist>>

\* file_path.stat() and the size test.
StatFile ==
    /\ pc = "stat"
    /\ LET size == Len(fs[cur.rel_path])
       IN  IF size > params.max_file_size
           THEN /\ result' = [result EXCEPT !.files_skipped = @ + 1]
                /\ hist' = [hist EXCEPT !.outcome[cur.rel_path] = "oversize"]
                /\ cur' = NoCur
                /\ pc' = "pull"
           ELSE /\ cur' = [cur EXCEPT !.file_size = size]
                /\ pc' = "read"
                /\ UNCHANGED <<result, hist>>
    /\ UNCHANGED <<ctx, held, cli, srch, tree, walk, gen, fs, committed, conn, params, walker>>

\* file_path.read_text(encoding="utf-8", errors="ignore") and hash_content.
ReadFile ==
    /\ pc = "read"
    /\ cur' = [cur EXCEPT !.content = DecodeIgnore(fs[cur.rel_path]),
                          !.content_hash = HashContent(DecodeIgnore(fs[cur.rel_path]))]
    /\ pc' = "lookup"
    /\ held' = {cur.rel_path}
    /\ UNCHANGED <<ctx, cli, srch, tree, walk, gen, fs, committed, conn, params, walker, result, hist>>

\* get_file_by_path and `if existing and existing["hash"] == content_hash`.
LookupFile ==
    /\ pc = "lookup"
    /\ LET existing == GetFileByPath(conn, cur.rel_path)
       IN  IF \E r \in existing : r.hash = cur.content_hash
           THEN /\ result' = [result EXCEPT !.files_skipped = @ + 1]
                /\ hist' = [hist EXCEPT !.outcome[cur.rel_path] = "unchanged"]
                /\ cur' = NoCur
                /\ pc' = "pull"
           ELSE /\ cur' = [cur EXCEPT !.existing = existing]
                /\ pc' = "upsert"
                /\ UNCHANGED <<result, hist>>
    /\ UNCHANGED <<ctx, held, cli, srch, tree, walk, gen, fs, committed, conn, params, walker>>

\* chunks = chunk_content(content, max_lines=max_chunk_lines): a generator
\* over the text, with the default overlap and min_lines and no language.
WithChunks(c) ==
    [c EXCEPT !.chunks = ChunkContent(c.content, params.max_chunk_lines,
                                      DefaultOverlap, DefaultMinLines, None),
              !.inserted = 0]

\* Where the body goes once the chunk generator is created: into the
\* insert loop, or past it when the generator yields nothing.
InsertOrCommit(c) == IF Len(c.chunks) = 0 THEN "commit" ELSE "insert"

\* detect_language and upsert_file.
UpsertStep ==
    /\ pc = "upsert"
    /\ LET up == UpsertFile(conn, cur.rel_path, cur.content_hash, cur.file_size,
                            DetectLanguage(cur.rel_path))
           c  == [cur EXCEPT !.file_id = up.id]
       IN  /\ conn' = up.store
           /\ IF cur.existing # {}
              THEN /\ cur' = c
                   /\ pc' = "delete"
              ELSE /\ cur' = WithChunks(c)
                   /\ pc' = InsertOrCommit(WithChunks(c))
    /\ UNCHANGED <<ctx, held, cli, srch, tree, walk, gen, fs, committed, params, walker, result, hist>>

\* `if existing: delete_chunks_for_file(conn, file_id)`.
DeleteStep ==
    /\ pc = "delete"
    /\ conn' = DeleteChunksForFile(conn, cur.file_id)
    /\ cur' = WithChunks(cur)
    /\ pc' = InsertOrCommit(WithChunks(cur))
    /\ UNCHANGED <<ctx, held, cli, srch, tree, walk, gen, fs, committed, params, walker, result, hist>>

\* One pass of `for chunk in chunks`: insert_chunk and chunks_created += 1.
InsertStep ==
    /\ pc = "insert"
    /\ cur.inserted < Len(cur.chunks)
    /\ conn' = InsertChunk(conn, cur.file_id, cur.chunks[cur.inserted + 1])
    /\ result' = [result EXCEPT !.chunks_created = @ + 1]
    /\ cur' = [cur EXCEPT !.inserted = @ + 1]
    /\ pc' = IF cur.inserted + 1 = Len(cur.chunks) THEN "commit" ELSE "insert"
    /\ hist' = [hist EXCEPT !.assigned =
                   LET id == InsertChunk(conn, cur.file_id, cur.chunks[cur.inserted + 1]).seq_chunks
                   IN  IF id > @ THEN id ELSE @]
    /\ UNCHANGED <<ctx, held, cli, srch, tree, walk, gen, fs, committed, params, walker>>

\* files_indexed += 1 and conn.commit(): the open transaction, whatever it
\* holds, becomes the committed store.
CommitStep ==
    /\ pc = "commit"
    /\ result' = [result EXCEPT !.files_indexed = @ + 1]
    /\ committed' = conn
    /\ hist' = [hist EXCEPT !.outcome[cur.rel_path] = "indexed"]
    /\ cur' = NoCur
    /\ pc' = "pull"
    /\ UNCHANGED <<ctx, held, cli, srch, tree, walk, gen, fs, conn, params, walker>>

\* What each step of the per-file body can raise: the file-system calls an
\* OSError, the statements on the connection an sqlite3.Error (disk full,
\* I/O error, database locked).  read_text decodes with errors="ignore" and
\* so never raises UnicodeDecodeError.
Raises(at) ==
    IF at \in {"stat", "read"} THEN {"OSError"}
    ELSE IF at \in {"lookup", "upsert", "delete", "insert", "commit"}
    THEN {"sqlite3.OperationalError"}
    ELSE {}

\* Whether the store held no File record with the file's current
\* fingerprint when the run began: the file needs (re)indexing.
Stale(p) == ~ \E r \in hist.store0.files : r.path = p /\ r.hash = HashContent(DecodeIgnore(fs[p]))

\* The except clauses of the per-file body.  Neither commits nor rolls back:
\* what the failed file wrote stays in the open transaction.
Handle(e) ==
    IF e = "UnicodeDecodeError"
    THEN [result EXCEPT !.files_skipped = @ + 1]
    ELSE [result EXCEPT !.errors = Append(@, [path |-> cur.rel_path, error |-> e])]

\* RaiseStep with an except clause that ends the loop.
RaiseStepAborts ==
    /\ \E e \in Raises(pc) :
          result' = IF pc = "commit"
                    THEN [Handle(e) EXCEPT !.files_indexed = @ + 1]
                    ELSE Handle(e)
    /\ hist' = [hist EXCEPT !.outcome[cur.rel_path] =
                   IF Stale(cur.rel_path) THEN "failed_stale" ELSE "failed_current"]
    /\ cur' = NoCur
    /\ pc' = "close"
    /\ UNCHANGED <<ctx, held, cli, srch, tree, walk, gen, fs, committed, conn, params, walker>>

\* A step of the per-file body raises; the statement that failed has no
\* effect of its own.  At "commit" files_indexed was already incremented.
RaiseStep ==
    /\ \E e \in Raises(pc) :
          result' = IF pc = "commit"
                    THEN [Handle(e) EXCEPT !.files_indexed = @ + 1]
                    ELSE Handle(e)
    /\ hist' = [hist EXCEPT !.outcome[cur.rel_path] =
                   IF Stale(cur.rel_path) THEN "failed_stale" ELSE "failed_current"]
    /\ cur' = NoCur
    /\ pc' = "pull"
    /\ UNCHANGED <<ctx, held, cli, srch, tree, walk, gen, fs, committed, conn, params, walker>>

\* After the loop: the result is returned to cmd_index, which closes the
\* connection (dropping a transaction still open), prints the result and
\* exits; nothing of the process outlives it but the committed store.
CloseStep ==
    /\ pc = "close"
    /\ conn' = committed
    /\ pc' = "idle"
    /\ cur' = NoCur
    /\ params' = NoParams
    /\ result' = NewResult
    /\ hist' = [hist EXCEPT
                  !.store0 = EmptyStore,
                  !.outcome = NoOutcome,
                  !.prev = hist.outcome,
                  !.prevClean = /\ result.errors = <<>>
                                /\ ~ result.stopped_early
                                /\ \A p \in Paths : hist.outcome[p] # "oversize"]
    /\ held' = {}
    /\ UNCHANGED <<ctx, cli, srch, tree, walk, gen, fs, committed, walker>>

\* The process is killed during a scan: the open transaction is lost and
\* no result is printed.
Kill ==
    /\ pc # "idle"
    /\ conn' = committed
    /\ pc' = "idle"
    /\ cur' = NoCur
    /\ walker' = {}
    /\ params' = NoParams
    /\ result' = NewResult
    /\ hist' = [hist EXCEPT !.store0 = EmptyStore, !.outcome = NoOutcome,
                            !.prev = NoOutcome, !.prevClean = FALSE]
    /\ held' = {}
    /\ UNCHANGED <<ctx, cli, srch, tree, walk, gen, fs, committed>>

Next ==
    \/ \E p \in Paths, t \in ScanTexts : WriteFile(p, t)
    \/ \E p \in Paths : RemoveFile(p)
    \/ \E mf \in MaxFilesArgs, ms \in MaxSizeArgs, cl \in ChunkLinesArgs : ScanStart(mf, ms, cl)
    \/ PullFile
    \/ StatFile
    \/ ReadFile
    \/ LookupFile
    \/ UpsertStep
    \/ DeleteStep
    \/ InsertStep
    \/ CommitStep
    \/ RaiseStep
    \/ CloseStep
    \/ Kill

Spec == Init /\ [][Next]_vars

\* The same runs over a workspace that holds files that are not valid text.
InitUndecodable ==
    /\ gen = IdleGen
    /\ WalkIdle
    /\ SearchIdle
    /\ CliIdle
    /\ CtxIdle
    /\ fs \in [Paths -> BinaryFiles \cup {Absent}]
    /\ \E p \in Paths : fs[p] # Absent
    /\ committed = EmptyStore
    /\ conn = EmptyStore
    /\ pc = "idle"
    /\ params = NoParams
    /\ walker = {}
    /\ cur = NoCur
    /\ result = NewResult
    /\ hist = NewHist
    /\ held = {}

SpecUndecodable == InitUndecodable /\ [][Next]_vars


(***************************************************************************)
(* chunk_content on its own: any text of the model and any arguments, the  *)
(* generator advanced one pass of its loop at a time.                      *)
(***************************************************************************)

MaxLinesArgs == -1..MaxParam

OverlapArgs == (-1..MaxParam) \cup {DefaultOverlap}

MinLinesArgs == 0..MaxParam

ScanIdle ==
    /\ fs = [p \in Paths |-> Absent]
    /\ committed = EmptyStore
    /\ conn = EmptyStore
    /\ pc = "idle"
    /\ params = NoParams
    /\ walker = {}
    /\ cur = NoCur
    /\ result = NewResult
    /\ hist = NewHist
    /\ held = {}

\* A text of n empty lines (n >= 1): n - 1 newlines.
LinesOfText(n) == [i \in 1..(n - 1) |-> NL]

\* The 200-line file of the acceptance scenario.
AcceptanceText == LinesOfText(200)

\* The call of the acceptance scenario: the defaults of chunk_content.
AcceptanceGen ==
    NewGen(AcceptanceText, DefaultMaxLines, DefaultOverlap, DefaultMinLines, None)

InitChunker ==
    /\ \/ \E t \in Texts, ml \in MaxLinesArgs, ov \in OverlapArgs, mn \in MinLinesArgs :
             gen = NewGen(t, ml, ov, mn, None)
       \/ gen = AcceptanceGen
    /\ ScanIdle
    /\ WalkIdle
    /\ SearchIdle
    /\ CliIdle
    /\ CtxIdle

\* `while start < total_lines` holds: one pass through the body.
ChunkIterate ==
    /\ LoopCond(gen)
    /\ gen' = LoopBody(gen)
    /\ UNCHANGED <<ctx, scanVars, tree, walk, srch, cli>>

\* `while start < total_lines` fails: the generator returns.
ChunkReturn ==
    /\ gen.pc = "loop"
    /\ ~ LoopCond(gen)
    /\ gen' = [gen EXCEPT !.pc = "done"]
    /\ UNCHANGED <<ctx, scanVars, tree, walk, srch, cli>>

NextChunker == ChunkIterate \/ ChunkReturn

SpecChunker == InitChunker /\ [][NextChunker]_vars


(***************************************************************************)
(* scanner.py: walk_files.  A name is its stem followed by its dot-parts   *)
(* ("a.py" is <<"a", ".py">>, ".git" is <<"", ".git">>); a path is the     *)
(* sequence of the names from the root; an entry of the tree is a path     *)
(* with its kind, "dir" or "file".                                         *)
(***************************************************************************)

\* DEFAULT_IGNORE, compared with whole names.
DEFAULT_IGNORE ==
    {
     <<"node_modules">>, <<"", ".npm">>, <<"", ".yarn">>,
     <<"", ".pnpm-store">>, <<"bower_components">>, <<"vendor">>,
     <<"__pycache__">>, <<"", ".pytest_cache">>, <<"", ".mypy_cache">>,
     <<"", ".ruff_cache">>, <<"venv">>, <<"", ".venv">>, <<"env">>,
     <<"", ".env">>, <<"site-packages">>, <<"", ".tox">>, <<"", ".nox">>,
     <<"eggs">>, <<"*", ".egg-info">>, <<"dist">>, <<"build">>, <<"out">>,
     <<"target">>, <<"_build">>, <<"public/build">>, <<"", ".next">>,
     <<"", ".nuxt">>, <<"", ".output">>, <<"", ".vinxi">>,
     <<"", ".svelte-kit">>, <<"", ".vercel">>, <<"", ".netlify">>,
     <<"var">>, <<"storage">>, <<"bootstrap/cache">>, <<"", ".idea">>,
     <<"", ".vscode">>, <<"", ".vs">>, <<"*", ".sublime-workspace">>,
     <<"", ".git">>, <<"", ".svn">>, <<"", ".hg">>, <<"coverage">>,
     <<"", ".nyc_output">>, <<"htmlcov">>, <<"", ".cache">>,
     <<"", ".turbo">>, <<"", ".parcel-cache">>, <<"", ".webpack">>,
     <<"", ".rollup", ".cache">>, <<"", ".eslintcache">>,
     <<"", ".stylelintcache">>, <<"logs">>, <<"*", ".log">>, <<"tmp">>,
     <<"temp">>, <<"", ".tmp">>, <<"", ".DS_Store">>, <<"Thumbs", ".db">>,
     <<"", ".docker">>
    }

\* IGNORE_EXTENSIONS
IGNORE_EXTENSIONS ==
    {
     ".min.js", ".min.css", ".bundle.js", ".map", ".db", ".db-shm",
     ".db-wal", ".pyc", ".pyo", ".so", ".dylib", ".dll", ".exe", ".bin",
     ".png", ".jpg", ".jpeg", ".gif", ".ico", ".svg", ".woff", ".woff2",
     ".ttf", ".eot", ".mp3", ".mp4", ".wav", ".avi", ".mov", ".pdf",
     ".zip", ".tar", ".gz", ".rar", ".7z"
    }

\* A test of the leading dot that no name passes.
IsHiddenNever(name) == FALSE

\* entry.name.startswith(".")
IsHidden(name) == name[1] = "" /\ Len(name) >= 2

\* entry.suffix: the last dot-part of the name, "" for a name without one
\* and for a name that is only a leading dot-part.
Suffix(name) ==
    IF Len(name) = 1 \/ (Len(name) = 2 /\ name[1] = "") THEN "" ELSE name[Len(name)]

\* str.lower(), on the dot-parts of the model's names.
Lower(part) ==
    IF part = ".PNG" THEN ".png"
    ELSE IF part = "LOGO" THEN "logo"
    ELSE part

\* fnmatch.fnmatch for a pattern without wildcard: the pattern, a path
\* written with "/", matches exactly itself.
FnMatch(path, pattern) == path = pattern

\* should_ignore without the test of the default ignore list.
ShouldIgnoreNoDefault(name, rel_path, gitignore_patterns) ==
    \E pattern \in gitignore_patterns :
        FnMatch(<<name>>, pattern) \/ FnMatch(rel_path, pattern)

\* should_ignore: the name is in DEFAULT_IGNORE, or a gitignore pattern
\* matches the name or the workspace-relative path.
ShouldIgnore(name, rel_path, gitignore_patterns) ==
    \/ name \in DEFAULT_IGNORE
    \/ \E pattern \in gitignore_patterns :
          FnMatch(<<name>>, pattern) \/ FnMatch(rel_path, pattern)

\* max_depth: int = 20
DefaultMaxDepth == 20

\* Bounds of the trees: the number of entries and the length of a path.
MaxEntries == 4

MaxTreeDepth == 3

\* The names of the directories and files of the trees.
DirNames == {<<"src">>, <<"node_modules">>, <<"", ".github">>}

FileNames ==
    {<<"a", ".py">>, <<"app", ".min", ".js">>, <<"a", ".map">>, <<"LOGO", ".PNG">>,
     <<"", ".npmrc">>}

\* The max_depth arguments and the pattern sets parse_gitignore returns.
MaxDepthArgs == {1, DefaultMaxDepth}

GitignoreArgs == {{}, {<< <<"src">>, <<"a", ".py">> >>}}

\* path.iterdir(): the entries directly below the directory.
Children(path) ==
    {e \in tree : Len(e.path) = Len(path) + 1 /\ SubSeq(e.path, 1, Len(path)) = path}

\* The workspace is populated before the walk: a directory or a file is
\* created in the root or in an existing directory.
MakeEntry(parent, name, kind) ==
    /\ walk.pc = "idle"
    /\ Cardinality(tree) < MaxEntries
    /\ Len(parent) < MaxTreeDepth
    /\ parent = <<>> \/ [path |-> parent, kind |-> "dir"] \in tree
    /\ \A e \in tree : e.path # Append(parent, name)
    /\ tree' = tree \cup {[path |-> Append(parent, name), kind |-> kind]}
    /\ UNCHANGED <<ctx, cli, srch, walk, gen, scanVars>>

\* walk_files(root_path, max_depth): parse_gitignore, then _walk(root_path, 0).
WalkStart(max_depth, patterns) ==
    /\ walk.pc = "idle"
    /\ walk' = [pc |-> "walk", max_depth |-> max_depth, patterns |-> patterns,
                stack |-> <<[path |-> <<>>, depth |-> 0, at |-> "enter", entries |-> {},
                             searchable |-> TRUE]>>,
                yielded |-> <<>>, consulted |-> {}, failed |-> {}]
    /\ UNCHANGED <<ctx, cli, srch, tree, gen, scanVars>>

\* The walk without its innermost frame; the generator is exhausted when
\* the frame of the root returns.
Return(w) ==
    [w EXCEPT !.stack = SubSeq(@, 1, Len(@) - 1),
              !.pc = IF Len(w.stack) = 1 THEN "done" ELSE "walk"]

\* The head of _walk: the depth test, then list(path.iterdir()).  The
\* frame returns on the depth test.  A directory the process may read and
\* search is listed; one it may not read raises PermissionError, which is
\* caught, and the frame returns; one it may read but not search (mode
\* r--) is listed, and its entries cannot be examined.
WalkEnter ==
    /\ walk.pc = "walk"
    /\ LET top == walk.stack[Len(walk.stack)]
       IN  /\ top.at = "enter"
           /\ IF top.depth > walk.max_depth
              THEN walk' = Return(walk)
              ELSE \/ walk' = [walk EXCEPT !.stack[Len(walk.stack)] =
                                  [top EXCEPT !.at = "iter", !.entries = Children(top.path)]]
                   \/ walk' = [Return(walk) EXCEPT !.failed = @ \cup {top.path}]
                   \/ /\ Children(top.path) # {}
                      /\ walk' = [walk EXCEPT
                                    !.failed = @ \cup {top.path},
                                    !.stack[Len(walk.stack)] =
                                       [top EXCEPT !.at = "iter", !.searchable = FALSE,
                                                   !.entries = Children(top.path)]]
    /\ UNCHANGED <<ctx, cli, srch, tree, gen, scanVars>>

\* One pass of `for entry in entries`, in the order of the listing, which
\* is any order: a directory is skipped when hidden or ignored and entered
\* otherwise; a file is skipped when hidden, of an ignored extension or
\* ignored, and yielded otherwise.  `consulted` records the names
\* should_ignore was called with.  In a directory that cannot be searched
\* entry.is_dir() raises PermissionError, outside the try statement: the
\* generator raises into its consumer.
WalkEntry ==
    /\ walk.pc = "walk"
    /\ LET n   == Len(walk.stack)
           top == walk.stack[n]
       IN  /\ top.at = "iter"
           /\ \E entry \in top.entries :
                LET name  == entry.path[Len(entry.path)]
                    rest  == [walk EXCEPT !.stack[n].entries = @ \ {entry}]
                    asked == [rest EXCEPT !.consulted = @ \cup {name}]
                IN  IF ~ top.searchable
                    THEN walk' = [walk EXCEPT !.pc = "raised"]
                    ELSE IF entry.kind = "dir"
                    THEN IF IsHidden(name)
                         THEN walk' = rest
                         ELSE IF ShouldIgnore(name, entry.path, walk.patterns)
                         THEN walk' = asked
                         ELSE walk' = [asked EXCEPT !.stack = Append(@,
                                          [path |-> entry.path, depth |-> top.depth + 1,
                                           at |-> "enter", entries |-> {},
                                           searchable |-> TRUE])]
                    ELSE IF IsHidden(name)
                         THEN walk' = rest
                         ELSE IF Lower(Suffix(name)) \in IGNORE_EXTENSIONS
                         THEN walk' = rest
                         ELSE IF ShouldIgnore(name, entry.path, walk.patterns)
                         THEN walk' = asked
                         ELSE walk' = [asked EXCEPT !.yielded = Append(@, entry.path)]
    /\ UNCHANGED <<ctx, cli, srch, tree, gen, scanVars>>

\* The for loop of a frame is exhausted: _walk returns.
WalkReturn ==
    /\ walk.pc = "walk"
    /\ LET top == walk.stack[Len(walk.stack)]
       IN  /\ top.at = "iter"
           /\ top.entries = {}
    /\ walk' = Return(walk)
    /\ UNCHANGED <<ctx, cli, srch, tree, gen, scanVars>>

InitWalker ==
    /\ gen = IdleGen
    /\ ScanIdle
    /\ WalkIdle
    /\ SearchIdle
    /\ CliIdle
    /\ CtxIdle

NextWalker ==
    \/ \E e \in tree \cup {[path |-> <<>>, kind |-> "dir"]}, name \in DirNames :
          MakeEntry(e.path, name, "dir")
    \/ \E e \in tree \cup {[path |-> <<>>, kind |-> "dir"]}, name \in FileNames :
          MakeEntry(e.path, name, "file")
    \/ \E max_depth \in MaxDepthArgs, patterns \in GitignoreArgs :
          WalkStart(max_depth, patterns)
    \/ WalkEnter
    \/ WalkEntry
    \/ WalkReturn

SpecWalker == InitWalker /\ [][NextWalker]_vars

(***************************************************************************)
(* The store under its callers: any sequence of the operations of          *)
(* database.py on one connection, with commits in between, and the loss of *)
(* the uncommitted changes when the connection is closed.  A scan performs *)
(* one such sequence, and so does the clear command.                       *)
(***************************************************************************)
\* What the scan stores for a text: the Chunker's output, without token_count.
ChunkerOutput(text, max_chunk_lines) ==
    LET out == ChunkContent(text, max_chunk_lines, DefaultOverlap, DefaultMinLines, None)
    IN  {[start_line |-> out[i].start_line, end_line |-> out[i].end_line,
          content |-> out[i].content, symbol |-> out[i].symbol, kind |-> out[i].kind]
           : i \in DOMAIN out}

MaxFileId == 2

MaxChunkId == 2

\* The chunks a scan with the default max_chunk_lines hands to insert_chunk.
StoreChunks == UNION {ChunkerOutput(t, DefaultMaxLines) : t \in ScanTexts}

\* The queries of search_fts: texts over the letter and the space.
MaxQueryLen == 3

Queries == UNION {[1..n -> {"a", " "}] : n \in 0..MaxQueryLen}

storeOther == <<gen, fs, pc, params, walker, cur, result, hist, tree, walk, srch, cli, held, ctx>>

InitStore ==
    /\ gen = IdleGen
    /\ WalkIdle
    /\ SearchIdle
    /\ CliIdle
    /\ CtxIdle
    /\ ScanIdle

\* upsert_file(conn, path, hash_content(content), size, detect_language(name))
StoreUpsert(p, t) ==
    /\ (GetFileByPath(conn, p) = {}) => conn.seq_files < MaxFileId
    /\ conn' = UpsertFile(conn, p, HashContent(t), Len(t), DetectLanguage(p)).store
    /\ UNCHANGED <<committed, storeOther>>

\* insert_chunk(conn, file_id, ...): any file id is accepted, foreign keys
\* are not enforced on the connection.
StoreInsert(file_id, chunk) ==
    /\ conn.seq_chunks < MaxChunkId
    /\ conn' = InsertChunk(conn, file_id, chunk)
    /\ UNCHANGED <<committed, storeOther>>

\* delete_chunks_for_file(conn, file_id)
StoreDelete(file_id) ==
    /\ conn' = DeleteChunksForFile(conn, file_id)
    /\ UNCHANGED <<committed, storeOther>>

\* clear_index(conn): the two DELETEs, then conn.commit().
StoreClear ==
    /\ conn' = ClearIndex(conn)
    /\ committed' = ClearIndex(conn)
    /\ UNCHANGED storeOther

\* conn.commit()
StoreCommit ==
    /\ committed' = conn
    /\ UNCHANGED <<conn, storeOther>>

\* conn.close() with changes pending, or the death of the process: the next
\* connection sees the committed state.
StoreRollback ==
    /\ conn # committed
    /\ conn' = committed
    /\ UNCHANGED <<committed, storeOther>>

NextStore ==
    \/ \E p \in Paths, t \in ScanTexts : StoreUpsert(p, t)
    \/ \E file_id \in 1..MaxFileId, chunk \in StoreChunks : StoreInsert(file_id, chunk)
    \/ \E file_id \in 1..MaxFileId : StoreDelete(file_id)
    \/ StoreClear
    \/ StoreCommit
    \/ StoreRollback

SpecStore == InitStore /\ [][NextStore]_vars

(***************************************************************************)
(* search_fts on a committed store: one call with its query, limit and     *)
(* offset.  The score is -bm25(chunks_fts), floating point arithmetic on   *)
(* term statistics; the model lets every matching row take any of a few    *)
(* scores, and lets rows of equal score come in any order.                 *)
(***************************************************************************)
TAB == "\t"

\* The texts of the stored chunks, of two lines each: the word "a" twice,
\* and the word "aa" followed by the word "a".
SearchTexts == {<<"a", NL, "a">>, <<"a", "a", NL, "a">>}

\* The file ids of the stored chunks: the id of the second File row, and an
\* id that has no File row.
SearchFileIds == {2, 3}

MaxSearchChunks == 2

MaxPhraseLen == 3

\* The queries: texts over the letter, the space and the tab.
SearchQueries == UNION {[1..n -> {"a", " ", TAB}] : n \in 0..MaxPhraseLen}

LimitArgs == {-1, 0, 1}

OffsetArgs == {-1, 0, 1}

ScoreValues == {0, 1}

\* The store after upsert_file of the two paths and insert_chunk of each
\* element of the sequence, a pair <<file_id, text>>.
RECURSIVE StoreWith(_)
StoreWith(inserts) ==
    IF inserts = <<>>
    THEN LET one == UpsertFile(EmptyStore, <<"a", ".py">>, HashContent(<<>>), 0,
                               DetectLanguage(<<"a", ".py">>)).store
         IN  UpsertFile(one, <<"b", ".md">>, HashContent(<<>>), 0,
                        DetectLanguage(<<"b", ".md">>)).store
    ELSE LET last == inserts[Len(inserts)]
             chunk == CHOOSE c \in ChunkerOutput(last[2], DefaultMaxLines) : TRUE
         IN  InsertChunk(StoreWith(SubSeq(inserts, 1, Len(inserts) - 1)), last[1], chunk)

SearchStores ==
    {StoreWith(ins) : ins \in UNION {[1..n -> SearchFileIds \X SearchTexts]
                                        : n \in 0..MaxSearchChunks}}

\* A joined row with the score column of the SELECT.
Scored(row, score) ==
    [id |-> row.id, path |-> row.path, start_line |-> row.start_line,
     end_line |-> row.end_line, content |-> row.content, symbol |-> row.symbol,
     kind |-> row.kind, score |-> score]

\* ORDER BY score DESC: the orders of the rows in which no row comes before
\* a row of higher score.
Rankings(rows) ==
    {f \in [1..Cardinality(rows) -> rows] :
        /\ \A i, j \in DOMAIN f : i # j => f[i] # f[j]
        /\ \A i, j \in DOMAIN f : i < j => f[i].score >= f[j].score}

\* LIMIT ? OFFSET ? that skips no row.
LimitOffsetNoSkip(ranking, limit, offset) ==
    LET last == IF limit < 0 \/ limit > Len(ranking) THEN Len(ranking) ELSE limit
    IN  [i \in 1..last |-> ranking[i]]

\* LIMIT ? OFFSET ?: a negative offset skips no row and a negative limit
\* places no ceiling on the number of rows.
LimitOffset(ranking, limit, offset) ==
    LET skip == IF offset < 0 THEN 0 ELSE offset
        last == IF limit < 0 \/ skip + limit > Len(ranking)
                THEN Len(ranking) ELSE skip + limit
    IN  [i \in 1..(IF last > skip THEN last - skip ELSE 0) |-> ranking[skip + i]]

InitSearch ==
    /\ gen = IdleGen
    /\ WalkIdle
    /\ SearchIdle
    /\ CliIdle
    /\ CtxIdle
    /\ fs = [p \in Paths |-> Absent]
    /\ committed \in SearchStores
    /\ conn = committed
    /\ pc = "idle"
    /\ params = NoParams
    /\ walker = {}
    /\ cur = NoCur
    /\ result = NewResult
    /\ hist = [NewHist EXCEPT !.assigned = committed.seq_chunks]
    /\ held = {}

\* search_fts(conn, query, limit, offset): the statement raises on a MATCH
\* argument that is no query; otherwise it returns the rows of one ranking
\* between the offset and the limit.
SearchCall(query, limit, offset) ==
    /\ srch.pc = "idle"
    /\ IF MatchError(EscapedQuery(query))
       THEN srch' = [pc |-> "raised", query |-> query, limit |-> limit,
                     offset |-> offset, full |-> <<>>, rows |-> <<>>]
       ELSE \E score \in [SearchMatches(committed, query) -> ScoreValues] :
              \E full \in Rankings({Scored(r, score[r])
                                      : r \in SearchMatches(committed, query)}) :
                srch' = [pc |-> "done", query |-> query, limit |-> limit,
                         offset |-> offset, full |-> full,
                         rows |-> LimitOffset(full, limit, offset)]
    /\ UNCHANGED <<ctx, cli, gen, tree, walk, scanVars>>

NextSearch ==
    \E query \in SearchQueries, limit \in LimitArgs, offset \in OffsetArgs :
        SearchCall(query, limit, offset)

SpecSearch == InitSearch /\ [][NextSearch]_vars

(***************************************************************************)
(* main.py: the commands index and clear, on a root directory and a store  *)
(* file that may not exist.                                                *)
(***************************************************************************)
\* The store a previous scan of a.py left behind.
PriorStore ==
    LET text == <<"a", NL, NL, NL>>
        up   == UpsertFile(EmptyStore, <<"a", ".py">>, HashContent(text), Len(text),
                           DetectLanguage(<<"a", ".py">>))
    IN  InsertChunk(up.store, up.id, CHOOSE c \in ChunkerOutput(text, DefaultMaxLines) : TRUE)

NoFiles == [p \in Paths |-> Absent]

\* A root directory that does not exist holds no file; a store file that
\* does not exist holds no row.
InitIndex ==
    /\ gen = IdleGen
    /\ WalkIdle
    /\ SearchIdle
    /\ cli \in {[NoCli EXCEPT !.root_exists = r, !.db_exists = d] : r, d \in BOOLEAN}
    /\ CtxIdle
    /\ fs \in (IF cli.root_exists THEN [Paths -> ScanTexts \cup {Absent}] ELSE {NoFiles})
    /\ committed \in (IF cli.db_exists THEN {EmptyStore, PriorStore} ELSE {EmptyStore})
    /\ conn = committed
    /\ pc = "idle"
    /\ params = NoParams
    /\ walker = {}
    /\ cur = NoCur
    /\ result = NewResult
    /\ hist = [NewHist EXCEPT !.assigned = committed.seq_chunks]
    /\ held = {}

\* cmd_index with init_db called before the test of the root path.
CmdIndexOpensFirst ==
    /\ pc = "idle"
    /\ ~ cli.root_exists
    /\ cli' = [cli EXCEPT !.command = "index", !.db_exists = TRUE, !.opened = TRUE,
                          !.exit_code = 1, !.output = "Path not found"]
    /\ UNCHANGED <<ctx, srch, tree, walk, gen, scanVars>>

\* cmd_index on a root path that does not exist: the error is printed and
\* the process exits with code 1, before init_db.
CmdIndexRootMissing ==
    /\ pc = "idle"
    /\ ~ cli.root_exists
    /\ cli' = [cli EXCEPT !.command = "index", !.opened = FALSE, !.exit_code = 1,
                          !.output = "Path not found"]
    /\ UNCHANGED <<ctx, srch, tree, walk, gen, scanVars>>

\* cmd_index on a root path that exists: init_db creates the store file when
\* it is missing and opens it, and the scan begins.
CmdIndexStart(mf, ms, cl) ==
    /\ cli.root_exists
    /\ ScanBegin(mf, ms, cl)
    /\ cli' = [cli EXCEPT !.command = "index", !.db_exists = TRUE, !.opened = TRUE,
                          !.exit_code = 0, !.output = "none"]

\* cmd_clear: an error when the store file does not exist; otherwise
\* init_db, clear_index (which commits) and close.
CmdClear ==
    /\ pc = "idle"
    /\ IF cli.db_exists
       THEN /\ committed' = ClearIndex(committed)
            /\ conn' = ClearIndex(committed)
            /\ cli' = [cli EXCEPT !.command = "clear", !.opened = TRUE,
                                  !.exit_code = 0, !.output = "cleared"]
       ELSE /\ cli' = [cli EXCEPT !.command = "clear", !.opened = FALSE,
                                  !.exit_code = 1, !.output = "Database not found"]
            /\ UNCHANGED <<committed, conn>>
    /\ UNCHANGED <<ctx, held, srch, tree, walk, gen, fs, pc, params, walker, cur, result, hist>>

\* The root directory is removed with all its files.
RootRemove ==
    /\ pc = "idle"
    /\ cli.root_exists
    /\ cli' = [cli EXCEPT !.root_exists = FALSE]
    /\ fs' = NoFiles
    /\ hist' = [hist EXCEPT !.prev = NoOutcome, !.prevClean = FALSE]
    /\ UNCHANGED <<ctx, held, srch, tree, walk, gen, committed, conn, pc, params, walker, cur, result>>

NextIndex ==
    \/ CmdIndexRootMissing
    \/ \E mf \in MaxFilesArgs, ms \in MaxSizeArgs, cl \in ChunkLinesArgs :
          CmdIndexStart(mf, ms, cl)
    \/ CmdClear
    \/ RootRemove
    \/ \E p \in Paths : RemoveFile(p)
    \/ PullFile
    \/ StatFile
    \/ ReadFile
    \/ LookupFile
    \/ UpsertStep
    \/ DeleteStep
    \/ InsertStep
    \/ CommitStep
    \/ RaiseStep
    \/ CloseStep

SpecIndex == InitIndex /\ [][NextIndex]_vars

(***************************************************************************)
(* A search from a second connection while a scan runs.  init_db puts the  *)
(* store in WAL mode: a reader takes no lock that a writer holds, and      *)
(* reads the last committed state.  In a rollback-journal mode the writer  *)
(* may take the exclusive lock at any moment of its transaction (a cache   *)
(* spill, the commit), and a reader waits for the lock.                    *)
(***************************************************************************)
\* init_db with the journal mode left at SQLite's default.
JournalModeDelete == "delete"

\* PRAGMA journal_mode=WAL
JournalMode == "wal"

\* Whether a reader has to wait: never in WAL mode; otherwise, while the
\* writer's transaction is open.
ReaderBlocked == JournalMode # "wal" /\ conn # committed

\* The query of the reader: the word the texts of the workspace hold.
ReaderQueries == {<<"a">>}

InitReader ==
    /\ gen = IdleGen
    /\ WalkIdle
    /\ SearchIdle
    /\ CliIdle
    /\ CtxIdle
    /\ fs \in [Paths -> ScanTexts \cup {Absent}]
    /\ committed \in {EmptyStore, PriorStore}
    /\ conn = committed
    /\ pc = "idle"
    /\ params = NoParams
    /\ walker = {}
    /\ cur = NoCur
    /\ result = NewResult
    /\ hist = [NewHist EXCEPT !.assigned = committed.seq_chunks]
    /\ held = {}

\* A second process calls init_db and search_fts while the scan is running.
ReaderStart(query) ==
    /\ pc # "idle"
    /\ srch.pc = "idle"
    /\ srch' = [pc |-> "waiting", query |-> query]
    /\ UNCHANGED <<ctx, cli, gen, tree, walk, scanVars>>

\* The statement of search_fts runs on the reader's connection, which sees
\* the committed store, and the rows are returned.
ReaderFinish ==
    /\ srch.pc = "waiting"
    /\ ~ ReaderBlocked
    /\ srch' = [pc |-> "done", query |-> srch.query,
                rows |-> SearchMatches(committed, srch.query),
                scan_pc |-> pc, in_transaction |-> conn # committed]
    /\ UNCHANGED <<ctx, cli, gen, tree, walk, scanVars>>

NextReader ==
    \/ \E mf \in MaxFilesArgs, ms \in MaxSizeArgs, cl \in ChunkLinesArgs : ScanStart(mf, ms, cl)
    \/ PullFile
    \/ StatFile
    \/ ReadFile
    \/ LookupFile
    \/ UpsertStep
    \/ DeleteStep
    \/ InsertStep
    \/ CommitStep
    \/ CloseStep
    \/ \E query \in ReaderQueries : ReaderStart(query)
    \/ ReaderFinish

\* The reader is a process of its own and takes its step when it can; the
\* scan is under no obligation to go on.
SpecReader == InitReader /\ [][NextReader]_vars /\ WF_vars(ReaderFinish)


(***************************************************************************)
(* Properties of chunk_content, checked under SpecChunker.                 *)
(***************************************************************************)

\* The lines of the text that lie in the range of some yielded chunk.
CoveredLines(g) ==
    {l \in 1..g.total_lines :
        \E i \in DOMAIN g.yielded :
            g.yielded[i].start_line <= l /\ l <= g.yielded[i].end_line}

\* C8 as stated: for every text of N >= 1 lines and every max_lines, overlap
\* and min_lines, the ranges of the yielded chunks cover every line of 1..N.
\* Stated here on the arguments most favourable to it, windows that are not
\* empty (max_lines >= 1) and leave no line between them (overlap >= 0).
C8_CoverageAnyArguments ==
    (gen.pc = "done" /\ gen.total_lines >= 1 /\ gen.max_lines >= 1 /\ gen.overlap >= 0)
        => CoveredLines(gen) = 1..gen.total_lines

\* The arguments under which no window is discarded and no line skipped.
C8_Arguments(g) ==
    /\ g.max_lines >= 1
    /\ g.overlap >= 0
    /\ g.min_lines <= g.max_lines
    /\ g.min_lines <= g.overlap + 1

\* C8 as amended: when max_lines >= 1, overlap >= 0, min_lines <= max_lines
\* and min_lines <= overlap + 1 (the scan's overlap 5 and min_lines 3 with
\* max_lines >= 3 among them), the ranges of the yielded chunks cover every
\* line of 1..N.
C8_Coverage ==
    (gen.pc = "done" /\ C8_Arguments(gen))
        => CoveredLines(gen) = 1..gen.total_lines

\* A finished traversal of several windows under such arguments, with a
\* min_lines that could discard a window.
C8_Witness ==
    /\ gen.pc = "done"
    /\ C8_Arguments(gen)
    /\ gen.min_lines >= 2
    /\ gen.total_lines >= 4
    /\ Len(gen.yielded) >= 2

\* C9: the start_line of each yielded chunk is strictly greater than the
\* start_line of the chunk yielded before it.
C9_StartsIncrease ==
    \A i \in 1..(Len(gen.yielded) - 1) :
        gen.yielded[i + 1].start_line > gen.yielded[i].start_line

\* Three chunks yielded although the overlap is at least the window size.
C9_Witness ==
    /\ Len(gen.yielded) >= 3
    /\ gen.max_lines >= 1
    /\ gen.overlap >= gen.max_lines

\* C10: the loop makes at most N passes for a text of N lines, whatever
\* max_lines and overlap are: the pass count never exceeds N, and after N
\* passes the loop test fails.
C10_Termination ==
    /\ gen.iterations <= gen.total_lines
    /\ (gen.iterations = gen.total_lines => ~ LoopCond(gen))

\* A traversal that needed all N passes, with a pathological overlap.
C10_Witness ==
    /\ gen.pc = "done"
    /\ gen.total_lines >= 3
    /\ gen.iterations = gen.total_lines
    /\ (gen.overlap >= gen.max_lines \/ gen.overlap < 0)

\* The line ranges of the chunks yielded so far, in order.
Ranges(g) == [i \in DOMAIN g.yielded |-> <<g.yielded[i].start_line, g.yielded[i].end_line>>]

\* The pass of the loop body from the current frame examines a window and
\* does not yield it.
DiscardsWindow ==
    /\ ChunkIterate
    /\ gen.start # gen.prev_start
    /\ gen'.yielded = gen.yielded

C12_FirstChunkExemption ==
    /\ gen.iterations >= 1 =>
          /\ Len(gen.yielded) >= 1
          /\ gen.yielded[1].start_line = 1
    /\ (gen.pc = "done" /\ gen.total_lines = 1 /\ gen.min_lines = DefaultMinLines
            /\ gen.max_lines >= 1)
          => Ranges(gen) = << <<1, 1>> >>

\* A finished traversal of a 1-line text with min_lines = 3.
C12_Witness ==
    /\ gen.pc = "done"
    /\ gen.total_lines = 1
    /\ gen.min_lines = DefaultMinLines
    /\ gen.max_lines >= 1
    /\ Len(gen.yielded) = 1

\* C13: a 200-line file chunked with max_lines = 80, overlap = 5 and
\* min_lines = 3 yields exactly the 3 chunks 1-80, 76-155 and 151-200; the
\* last chunk ends at line 200 and the loop stops after it, on its third
\* pass.
C13_AcceptanceScenario ==
    (gen.content = AcceptanceText /\ gen.max_lines = 80 /\ gen.overlap = 5
        /\ gen.min_lines = 3)
      => /\ gen.total_lines = 200
         /\ gen.iterations <= 3
         /\ \A i \in DOMAIN gen.yielded :
               Ranges(gen)[i] = << <<1, 80>>, <<76, 155>>, <<151, 200>> >>[i]
         /\ gen.pc = "done" <=> gen.iterations = 3
         /\ gen.pc = "done" => Len(gen.yielded) = 3

\* The acceptance scenario's traversal, finished.
C13_Witness ==
    /\ gen.pc = "done"
    /\ gen.content = AcceptanceText
    /\ gen.max_lines = 80 /\ gen.overlap = 5 /\ gen.min_lines = 3
    /\ Len(gen.yielded) = 3


(***************************************************************************)
(* Properties of the scan, checked under Spec.                             *)
(***************************************************************************)

\* The chunk rows of a File row, without their ids.
StoredChunks(store, file_id) ==
    {[start_line |-> c.start_line, end_line |-> c.end_line, content |-> c.content,
      symbol |-> c.symbol, kind |-> c.kind] : c \in {x \in store.chunks : x.file_id = file_id}}

\* The File row r of the store has exactly the chunk rows the Chunker yields
\* for `text` under max_chunk_lines.
HasChunksOf(store, r, text, max_chunk_lines) ==
    /\ StoredChunks(store, r.id) = ChunkerOutput(text, max_chunk_lines)
    /\ Cardinality({x \in store.chunks : x.file_id = r.id})
           = Cardinality(ChunkerOutput(text, max_chunk_lines))

\* C1: in every committed store state, each File record's chunk set is the
\* complete Chunker output for the content whose fingerprint the record
\* holds (under the max_chunk_lines of some run), also when the processing
\* of a file raised after upsert_file, after delete_chunks or between two
\* insert_chunk calls.
C1_CommittedChunkSetsComplete ==
    \A r \in committed.files :
        \E t \in ScanTexts, cl \in ChunkLinesArgs :
            /\ HashContent(t) = r.hash
            /\ HasChunksOf(committed, r, t, cl)

\* C2: a file whose processing failed in the previous run while it needed
\* (re)indexing, and whose content has not changed since, is not counted as
\* skipped-unchanged by this run.
C2_FailedFileRetried ==
    \A p \in Paths :
        hist.prev[p] = "failed_stale" => hist.outcome[p] # "unchanged"

\* C3: whenever the next file is pulled from the walker, no uncommitted
\* write is pending on the connection.
C3_NothingPendingBetweenFiles ==
    pc = "pull" => conn = committed

\* The paths whose processing this run ended in the error list.
Failed == {p \in Paths : hist.outcome[p] \in {"failed_stale", "failed_current"}}

\* C4: each failure of a per-file step is recorded as one (path, error)
\* entry of the error list, and the loop goes on: when it ends, the walker
\* is exhausted or the file-count ceiling was reached, and every file the
\* walker yielded below the ceiling was visited.
C4_BadFileNeverAborts ==
    /\ Len(result.errors) = Cardinality(Failed)
    /\ \A p \in Failed :
          Cardinality({i \in DOMAIN result.errors : result.errors[i].path = p}) = 1
    /\ pc = "close" =>
          /\ result.stopped_early \/ walker = {}
          /\ result.stopped_early => result.files_scanned >= params.max_files
          /\ ~ result.stopped_early =>
                \A p \in WalkFiles(fs) : hist.outcome[p] # "none"
          /\ result.files_scanned
                = Cardinality({p \in Paths : hist.outcome[p] # "none"})

\* A run that ends after both files failed: the second was visited although
\* the first had failed.
C4_Witness ==
    /\ pc = "close"
    /\ result.files_scanned = 2
    /\ Len(result.errors) = 2

\* C5: in a run that follows a run which completed without error, without
\* stopping early and without an oversized file, no content having changed
\* since: no file is indexed, no chunk is created, the store stays exactly
\* as it was, and every visited file that does not fail is counted as
\* skipped, which is every file of the workspace when the run completes.
C5_IdempotentReindex ==
    (pc # "idle" /\ hist.prevClean) =>
        /\ result.files_indexed = 0
        /\ result.chunks_created = 0
        /\ conn = hist.store0
        /\ committed = hist.store0
        /\ pc \in {"pull", "close"} =>
              result.files_skipped + Len(result.errors) = result.files_scanned
        /\ (pc = "close" /\ result.errors = <<>> /\ ~ result.stopped_early) =>
              result.files_skipped = Cardinality(WalkFiles(fs))

\* The end of such a second run over two indexed files.
C5_Witness ==
    /\ pc = "close"
    /\ hist.prevClean
    /\ result.files_skipped = 2
    /\ Cardinality(hist.store0.files) = 2
    /\ hist.store0.chunks # {}

\* The ids of the chunks the store held for path p when the run began.
OldChunkIds(p) ==
    {c.id : c \in {x \in hist.store0.chunks :
                      \E r \in hist.store0.files : r.path = p /\ r.id = x.file_id}}

\* C6: once a run has re-indexed a file that had a File record, none of the
\* file's old chunk ids exists any more and the file's chunks are exactly the
\* Chunker output for its new content.
C6_ChangeDetection ==
    pc # "idle" =>
        \A p \in Paths :
            (hist.outcome[p] = "indexed" /\ GetFileByPath(hist.store0, p) # {}) =>
                /\ \A c \in committed.chunks : c.id \notin OldChunkIds(p)
                /\ \A r \in GetFileByPath(committed, p) :
                      /\ r.hash = HashContent(fs[p])
                      /\ HasChunksOf(committed, r, fs[p], params.max_chunk_lines)
                /\ GetFileByPath(committed, p) # {}

\* A file that had chunks is re-indexed with a content of several chunks.
C6_Witness ==
    /\ pc = "close"
    /\ \E p \in Paths :
          /\ hist.outcome[p] = "indexed"
          /\ OldChunkIds(p) # {}
          /\ Cardinality(ChunkerOutput(fs[p], params.max_chunk_lines)) >= 2

\* The File and Chunk records of every path other than p.
OtherRecords(store, p) ==
    [files  |-> {r \in store.files : r.path # p},
     chunks |-> {c \in store.chunks :
                    \E r \in store.files : r.path # p /\ r.id = c.file_id}]

\* C7: the upsert, the chunk deletion and the chunk insertions of the file
\* being re-indexed leave the File and Chunk records of every other path
\* unchanged.
C7_OtherFilesUntouched ==
    [][(UpsertStep \/ DeleteStep \/ InsertStep) =>
          OtherRecords(conn', cur.rel_path) = OtherRecords(conn, cur.rel_path)]_vars

\* A file is being re-indexed, past its chunk deletion and first insertion,
\* while another path has chunks in the store.
C7_Witness ==
    /\ pc = "insert"
    /\ cur.existing # {}
    /\ cur.inserted >= 1
    /\ OtherRecords(conn, cur.rel_path).chunks # {}



\* C17 as stated: once the number of visited files has reached max_files,
\* the result of the scan carries stopped_early = true.
C17_FlagOnceCeilingReached ==
    (pc = "close" /\ result.files_scanned = params.max_files) => result.stopped_early

\* The files the Walker yields that the run has not visited.
Unvisited == {p \in WalkFiles(fs) : hist.outcome[p] = "none"}

\* C17 as amended: files_scanned never exceeds max_files; the ceiling is
\* tested when the Walker yields a file; the scan stops early, with
\* stopped_early = true, exactly when the Walker yields a further file after
\* max_files files were visited, and from then on visits no file and writes
\* nothing to the store; a workspace of exactly max_files files ends
\* without the flag.
C17_FileCountCeiling ==
    /\ [](/\ pc # "idle" => result.files_scanned <= params.max_files
          /\ result.stopped_early =>
                /\ pc = "close"
                /\ cur = NoCur
                /\ result.files_scanned = params.max_files
          /\ pc = "close" => (result.stopped_early <=> Unvisited # {}))
    /\ [][result.stopped_early =>
              /\ committed' = committed
              /\ conn' = committed
              /\ pc' = "idle"]_vars

\* A run stopped by the ceiling after it indexed a file.
C17_Witness ==
    /\ pc = "close"
    /\ result.stopped_early
    /\ result.files_indexed >= 1
    /\ Unvisited # {}

\* The file in hand is larger than max_file_size.
Oversized == Len(fs[cur.rel_path]) > params.max_file_size

\* The step in which stat() returns and the size is tested: a step from the
\* stat stage that is neither the raise of stat() nor the end of the process.
SizeTested ==
    /\ pc = "stat"
    /\ pc' # "idle"
    /\ result'.errors = result.errors

\* C18: a file whose size exceeds max_file_size is counted in
\* files_skipped, is not recorded as an error and is not indexed, the File
\* and Chunk records of every path stay as they were, and its content is
\* never read: the steps from the read on are only taken for files within
\* the ceiling.
C18_OversizedSkipped ==
    /\ [][(SizeTested /\ Oversized) =>
              /\ result' = [result EXCEPT !.files_skipped = @ + 1]
              /\ conn' = conn
              /\ committed' = committed
              /\ pc' = "pull"]_vars
    /\ [](pc \in {"read", "lookup", "upsert", "delete", "insert", "commit"}
            => ~ Oversized)

\* An oversized file skipped while the store holds records of its path.
C18_Witness ==
    /\ pc = "pull"
    /\ \E p \in Paths :
          /\ hist.outcome[p] = "oversize"
          /\ \E r \in conn.files : r.path = p /\ StoredChunks(conn, r.id) # {}
    /\ result.files_skipped >= 1
    /\ result.errors = <<>>

\* C19: a file whose content is not valid text is skipped: it is never
\* indexed, so no run ends its processing by the commit and the store never
\* holds a File record of its path.  (In SpecUndecodable a path whose file
\* is not valid text has held that file since the first state.)
C19_UndecodableSkipped ==
    \A p \in Paths :
        (fs[p] # Absent /\ ~ IsValidText(fs[p])) =>
            /\ hist.outcome[p] # "indexed"
            /\ \A r \in committed.files : r.path # p

(***************************************************************************)
(* Properties of walk_files, checked under SpecWalker.                     *)
(***************************************************************************)

\* Whether a directory named in the static deny-set is among the ancestors
\* of the path.
UnderDeniedDirectory(path) ==
    \E k \in 1..(Len(path) - 1) : path[k] \in DEFAULT_IGNORE

\* C20: for every tree, no path with a directory of the static deny-set
\* among its ancestors is yielded by the Walker, at whatever depth that
\* directory lies; the Walker does not even enter such a directory.
C20_DeniedDirectoriesPruned ==
    /\ \A i \in DOMAIN walk.yielded : ~ UnderDeniedDirectory(walk.yielded[i])
    /\ \A i \in DOMAIN walk.stack :
          \A k \in DOMAIN walk.stack[i].path : walk.stack[i].path[k] \notin DEFAULT_IGNORE

\* A finished walk with the default max_depth, over a tree that holds a
\* file below a denied directory that lies in another directory; the walk
\* listed that directory, since it yielded a file of it.
C20_Witness ==
    /\ walk.pc = "done"
    /\ walk.max_depth = DefaultMaxDepth
    /\ \E e \in tree :
          /\ e.kind = "file"
          /\ Len(e.path) = 3
          /\ e.path[2] \in DEFAULT_IGNORE
          /\ e.path[1] \notin DEFAULT_IGNORE
          /\ \E i \in DOMAIN walk.yielded :
                Len(walk.yielded[i]) = 2 /\ walk.yielded[i][1] = e.path[1]

\* The dot-parts of an extension of IGNORE_EXTENSIONS.
DotParts(ext) ==
    IF ext = ".min.js" THEN <<".min", ".js">>
    ELSE IF ext = ".min.css" THEN <<".min", ".css">>
    ELSE IF ext = ".bundle.js" THEN <<".bundle", ".js">>
    ELSE <<ext>>

\* Whether the name, a stem followed by dot-parts, ends with the extension,
\* letter case aside.
EndsWithExtension(name, ext) ==
    LET parts == DotParts(ext)
        k     == Len(parts)
    IN  /\ Len(name) >= k + 1
        /\ \A j \in 1..k : Lower(name[Len(name) - k + j]) = parts[j]

\* C21: no file whose name ends with an extension of the static extension
\* deny-set is yielded by the Walker, the multi-part extensions .min.js,
\* .min.css and .bundle.js included.
C21_DeniedExtensionsNeverYielded ==
    \A i \in DOMAIN walk.yielded :
        LET name == walk.yielded[i][Len(walk.yielded[i])]
        IN  \A ext \in IGNORE_EXTENSIONS : ~ EndsWithExtension(name, ext)

\* Whether the name starts with '.': its stem is empty.
StartsWithDot(name) == Len(name) >= 2 /\ name[1] = ""

\* Whether some component of the path is hidden.
HasHiddenComponent(path) == \E k \in DOMAIN path : StartsWithDot(path[k])

\* C22: the Walker never yields a hidden file and never enters a hidden
\* directory, so no yielded path has a hidden component; and should_ignore
\* is never called with a hidden name, the hidden test comes first.
C22_HiddenEntriesFiltered ==
    /\ \A i \in DOMAIN walk.yielded : ~ HasHiddenComponent(walk.yielded[i])
    /\ \A i \in DOMAIN walk.stack : ~ HasHiddenComponent(walk.stack[i].path)
    /\ \A name \in walk.consulted : ~ StartsWithDot(name)

\* A finished walk with the default max_depth that yielded a file of the
\* root, over a tree whose root also holds a hidden file and a hidden
\* directory with a file in it.
C22_Witness ==
    /\ walk.pc = "done"
    /\ walk.max_depth = DefaultMaxDepth
    /\ \E i \in DOMAIN walk.yielded : Len(walk.yielded[i]) = 1
    /\ \E e \in tree : e.kind = "file" /\ Len(e.path) = 1 /\ StartsWithDot(e.path[1])
    /\ \E e \in tree : e.kind = "file" /\ Len(e.path) = 2 /\ StartsWithDot(e.path[1])

(***************************************************************************)
(* Properties of the store, checked under SpecStore.                       *)
(***************************************************************************)

\* The shadow index of the store holds one entry per chunk row, under the
\* chunk's id and with the chunk's content, and nothing else.
Lockstep(store) ==
    /\ store.fts = {[rowid |-> c.id, content |-> c.content] : c \in store.chunks}
    /\ \A e1, e2 \in store.fts : e1.rowid = e2.rowid => e1 = e2
    /\ Cardinality(store.fts) = Cardinality(store.chunks)

\* C14: in every state reachable through insert_chunk, delete_chunks, clear
\* and the other store operations a scan performs, the shadow index holds
\* exactly one entry per Chunk record, with the chunk's id as rowid and the
\* chunk's content; this is so for what the connection sees with its writes
\* pending and for the committed state a rollback returns to.
C14_ShadowIndexLockstep ==
    /\ Lockstep(conn)
    /\ Lockstep(committed)

\* A chunk inserted and not committed, after a chunk was deleted, next to a
\* committed chunk.
C14_Witness ==
    /\ conn.seq_chunks = 2
    /\ Cardinality(conn.chunks) = 1
    /\ committed.chunks # {}
    /\ conn.chunks # committed.chunks

\* C15: the store holds at most one File record per path; upsert_file on a
\* path that has a record updates that record in place and returns its id,
\* and on a path without a record inserts one record and returns its new id.
C15_OneFilePerPath ==
    /\ \A store \in {conn, committed} :
          \A r1, r2 \in store.files : r1.path = r2.path => r1 = r2
    /\ \A p \in Paths, t \in ScanTexts :
          LET up     == UpsertFile(conn, p, HashContent(t), Len(t), DetectLanguage(p))
              ex     == GetFileByPath(conn, p)
              ids(f) == {r.id : r \in f}
              row    == [id |-> up.id, path |-> p, hash |-> HashContent(t),
                         size |-> Len(t), lang |-> DetectLanguage(p)]
          IN  IF ex # {}
              THEN /\ \A r \in ex : up.id = r.id
                   /\ up.store.files = (conn.files \ ex) \cup {row}
                   /\ ids(up.store.files) = ids(conn.files)
              ELSE /\ up.id \notin ids(conn.files)
                   /\ up.store.files = conn.files \cup {row}

\* A record updated in place: same path and id as the committed record,
\* another fingerprint, next to a record of another path.
C15_Witness ==
    /\ Cardinality(conn.files) = 2
    /\ \E r \in conn.files, q \in committed.files :
          r.path = q.path /\ r.id = q.id /\ r.hash # q.hash

\* C16: after clear_index returns, get_stats reports zero files and zero
\* chunks and search_fts returns no row for any query, on the connection
\* and in the committed state another connection reads.
C16_FullClear ==
    [][StoreClear =>
          \A store \in {conn', committed'} :
              /\ GetStats(store).files = 0
              /\ GetStats(store).chunks = 0
              /\ \A q \in Queries : SearchMatches(store, q) = {}]_vars

\* A cleared store: empty tables after files and chunks had been written.
C16_Witness ==
    /\ conn = committed
    /\ GetStats(committed).files = 0
    /\ GetStats(committed).chunks = 0
    /\ committed.seq_files >= 1
    /\ committed.seq_chunks >= 1


\* A query holds whitespace when it holds a space or a tab.
HasWhitespace(query) == \E i \in DOMAIN query : query[i] \in {" ", TAB}

\* The chunks of the store that are joined to a File row.
JoinedChunks(store) == {c \in store.chunks : \E f \in store.files : f.id = c.file_id}

\* C23: search returns only chunks that match the query.  A query holding
\* whitespace is one literal phrase: every row of the answer holds the words
\* of the query next to each other and in that order.  A query of one term
\* returns the chunks holding the term, and no other.
C23_SearchMatching ==
    srch.pc = "done" =>
      /\ HasWhitespace(srch.query) =>
           \A i \in DOMAIN srch.full :
               PhraseIn(Tokens(srch.query), Tokens(srch.full[i].content))
      /\ (~ HasWhitespace(srch.query)) =>
           {srch.full[i].id : i \in DOMAIN srch.full}
             = {c.id : c \in {x \in JoinedChunks(committed) :
                                 PhraseIn(Tokens(srch.query), Tokens(x.content))}}

\* The part of C23 the code meets: a query holding a space is one literal
\* phrase, and a query of one term returns exactly the chunks holding it.
C23_SpaceQueriesArePhrases ==
    srch.pc = "done" /\ (\A i \in DOMAIN srch.query : srch.query[i] # TAB) =>
        {srch.full[i].id : i \in DOMAIN srch.full}
          = {c.id : c \in {x \in JoinedChunks(committed) :
                              PhraseIn(Tokens(srch.query), Tokens(x.content))}}

\* A phrase query met a chunk holding its words and a chunk holding only
\* one of them next to another word, and returned only the former.
C23_Witness ==
    /\ srch.pc = "done"
    /\ srch.query = <<"a", " ", "a">>
    /\ {c.content : c \in JoinedChunks(committed)} = SearchTexts
    /\ Cardinality(JoinedChunks(committed)) = 2
    /\ Len(srch.full) = 1

\* The claim C24 as it is worded, for every limit and offset: the answer is
\* ordered by non-increasing score, each row joins a chunk with the path of
\* its file, and the answer holds at most limit rows, those at the positions
\* offset .. offset+limit-1 of the full ranking (positions count from 0).
C24_PaginationAsWorded ==
    srch.pc = "done" =>
      /\ \A i, j \in DOMAIN srch.rows : i < j => srch.rows[i].score >= srch.rows[j].score
      /\ \A i \in DOMAIN srch.rows :
            \E c \in committed.chunks, f \in committed.files :
               /\ c.id = srch.rows[i].id
               /\ c.file_id = f.id
               /\ f.path = srch.rows[i].path
      /\ Len(srch.rows) <= srch.limit
      /\ \A i \in DOMAIN srch.rows : srch.rows[i] = srch.full[srch.offset + i]

\* The number of rows of a page of at most limit rows after offset rows.
PageLen(total, limit, offset) ==
    IF total - offset <= 0 THEN 0
    ELSE IF total - offset < limit THEN total - offset ELSE limit

\* C24: the answer of search is ordered by non-increasing score and each row
\* joins an existing chunk with the path of its file.  For limit >= 0 and
\* offset >= 0 the answer is the rows at the positions offset ..
\* offset+limit-1 of the full ranking, as many of them as the ranking has.
\* A negative offset skips no row; a negative limit returns every row after
\* the offset.
C24_OrderingAndPagination ==
    srch.pc = "done" =>
      LET skip == IF srch.offset < 0 THEN 0 ELSE srch.offset
          n    == IF srch.limit < 0 THEN Len(srch.full) ELSE srch.limit
      IN  /\ \A i, j \in DOMAIN srch.rows :
                i < j => srch.rows[i].score >= srch.rows[j].score
          /\ \A i \in DOMAIN srch.rows :
                \E c \in committed.chunks, f \in committed.files :
                   /\ c.id = srch.rows[i].id
                   /\ c.file_id = f.id
                   /\ f.path = srch.rows[i].path
          /\ Len(srch.rows) = PageLen(Len(srch.full), n, skip)
          /\ \A i \in DOMAIN srch.rows : srch.rows[i] = srch.full[skip + i]

\* A search with limit 1 and offset 1 over a ranking of two rows of different
\* scores returned the second row.
C24_Witness ==
    /\ srch.pc = "done"
    /\ srch.limit = 1
    /\ srch.offset = 1
    /\ Len(srch.full) = 2
    /\ srch.full[1].score > srch.full[2].score
    /\ srch.rows = <<srch.full[2]>>

\* C25: when the root directory given to index does not exist, the command
\* reports one error and exits with code 1 before any scanning begins: the
\* store is not opened, the store file is not created, no row of the store
\* changes and no file is visited.
C25_FatalRootPathError ==
    /\ [](~ cli.root_exists => pc = "idle" /\ result = NewResult)
    /\ [][(~ cli.root_exists /\ cli'.command = "index" /\ cli' # cli)
            => /\ cli'.output = "Path not found"
               /\ cli'.exit_code = 1
               /\ ~ cli'.opened
               /\ cli'.db_exists = cli.db_exists
               /\ committed' = committed
               /\ conn' = conn
               /\ walker' = walker
               /\ result' = result
               /\ hist' = hist]_vars

\* The index command failed on a missing root directory while no store file
\* existed, and none exists after it.
C25_Witness ==
    /\ ~ cli.root_exists
    /\ cli.command = "index"
    /\ cli.exit_code = 1
    /\ ~ cli.db_exists

\* The paths that have a File record in the committed store.
FilePaths(store) == {f.path : f \in store.files}

\* The File and Chunk records of the paths that are not in the workspace.
GoneRecords(store) ==
    [files  |-> {f \in store.files : fs[f.path] = Absent},
     chunks |-> {c \in store.chunks :
                    \E f \in store.files : f.id = c.file_id /\ fs[f.path] = Absent}]

\* A clear command that found the store file.
ClearStep == cli'.command = "clear" /\ cli'.output = "cleared"

\* C26: a scan never deletes a File record.  Every step but clear leaves
\* each path that has a File record with one, and leaves the File and Chunk
\* records of the paths that are gone from the workspace as they are; clear
\* removes every File record.
C26_FileRecordLifecycle ==
    /\ [][(~ ClearStep) =>
            /\ FilePaths(committed) \subseteq FilePaths(committed')
            /\ GoneRecords(committed).files \subseteq committed'.files
            /\ GoneRecords(committed).chunks \subseteq committed'.chunks]_vars
    /\ [][ClearStep => committed'.files = {} /\ conn'.files = {}]_vars

\* A scan has indexed b.md after a.py was removed from the workspace, and
\* the File and Chunk records of a.py are still there.
C26_Witness ==
    /\ pc = "idle"
    /\ hist.runs >= 1
    /\ fs[<<"a", ".py">>] = Absent
    /\ FilePaths(committed) = Paths
    /\ GoneRecords(committed).chunks # {}

\* C28: at every point of a scan the scan holds the text of at most one
\* file, and the text read for one path is no longer held when the next
\* path has been pulled from the walker.
C28_OneFileInMemory ==
    /\ Cardinality(held) <= 1
    /\ pc = "stat" => held \subseteq {cur.rel_path}

\* The part of C28 the code meets: the locals never refer to the text of
\* more than one file between two statements, and a return of the scan
\* releases it.
C28_AtMostOneTextBound ==
    /\ Cardinality(held) <= 1
    /\ pc = "idle" => held = {}

\* C29: every chunk yielded for a text of N lines satisfies
\* 1 <= start_line <= end_line <= N, for every max_lines (0 and 1 among
\* them), overlap and min_lines.  Stated here on the arguments the claim
\* names, max_lines >= 0, with a step that does not skip lines
\* (overlap >= 0).
C29_RangesWellFormed ==
    (gen.max_lines >= 0 /\ gen.overlap >= 0) =>
        \A i \in DOMAIN gen.yielded :
            /\ 1 <= gen.yielded[i].start_line
            /\ gen.yielded[i].start_line <= gen.yielded[i].end_line
            /\ gen.yielded[i].end_line <= gen.total_lines

\* The part of C29 the code meets: with max_lines >= 1 every yielded range
\* is well formed, whatever overlap and min_lines are.
C29_RangesWellFormedFromOne ==
    gen.max_lines >= 1 =>
        \A i \in DOMAIN gen.yielded :
            /\ 1 <= gen.yielded[i].start_line
            /\ gen.yielded[i].start_line <= gen.yielded[i].end_line
            /\ gen.yielded[i].end_line <= gen.total_lines

\* The lines (1-indexed) of the window that starts at the 0-indexed start.
WindowLines(g, start) == (start + 1)..Min(start + g.max_lines, g.total_lines)

\* A pass of the loop over a window that does not reach the end of the text.
AdvancesWindow ==
    /\ gen.pc = "loop"
    /\ gen'.iterations = gen.iterations + 1
    /\ gen.start # gen.prev_start
    /\ Min(gen.start + gen.max_lines, gen.total_lines) < gen.total_lines

\* C30: when a window does not reach the end of the text and
\* 0 <= overlap < size of the window, the first line of the next window is
\* the window's end_line - overlap + 1 and the two windows share exactly
\* overlap lines; when overlap >= size of the window, the next window begins
\* one line after the start of the window.
C30_AdvanceRule ==
    [][AdvancesWindow =>
         LET end_line == Min(gen.start + gen.max_lines, gen.total_lines)
             size     == end_line - gen.start
         IN  /\ (0 <= gen.overlap /\ gen.overlap < size) =>
                   /\ gen'.start + 1 = end_line - gen.overlap + 1
                   /\ Cardinality(WindowLines(gen, gen.start)
                                    \cap WindowLines(gen, gen'.start)) = gen.overlap
             /\ gen.overlap >= size => gen'.start = gen.start + 1]_vars

\* The loop has advanced from a window of several lines to the next one with
\* an overlap of at least one line, smaller than the window.
C30_Witness ==
    /\ gen.pc = "loop"
    /\ gen.prev_start >= 0
    /\ gen.overlap >= 1
    /\ gen.overlap < gen.max_lines
    /\ gen.prev_start + gen.max_lines < gen.total_lines
    /\ gen.start = gen.prev_start + gen.max_lines - gen.overlap

\* The ids of the chunks of a store.
ChunkIds(store) == {c.id : c \in store.chunks}

\* C27: a search started while a scan is in progress completes without
\* waiting for the scan, or for the file the scan is at, to go on: it is
\* never held back, and it completes even when the scan takes no further
\* step.  The rows it returns are those of the committed store: no row of
\* the scan's open transaction is among them.
C27_ReadersNotStarved ==
    /\ [](srch.pc = "waiting" => ~ (conn # committed /\ JournalMode # "wal"))
    /\ [][(srch.pc = "waiting" /\ srch'.pc = "done") =>
             /\ srch'.rows = SearchMatches(committed, srch.query)
             /\ {r.id : r \in srch'.rows} \subseteq ChunkIds(committed)
             /\ <<pc, conn, committed>>' = <<pc, conn, committed>>]_vars
    /\ (srch.pc = "waiting" ~> srch.pc = "done")

\* A search has completed in the middle of a file, while the scan's
\* transaction held a chunk matching the query that was not yet committed,
\* and it returned the committed rows only.
C27_Witness ==
    /\ srch.pc = "done"
    /\ srch.in_transaction
    /\ srch.scan_pc = "insert"
    /\ pc = "insert"
    /\ \E c \in conn.chunks : c.id \notin ChunkIds(committed) /\ Matches(c.content, srch.query)
    /\ srch.rows = SearchMatches(committed, srch.query)


\* C31: chunking the empty text produces no chunk.
C31_EmptyTextNoChunks ==
    gen.content = <<>> => gen.yielded = <<>>


\* Whether the path lies below one of the directories.
Below(path, dirs) ==
    \E k \in 0..(Len(path) - 1) : SubSeq(path, 1, k) \in dirs

\* The directories whose entries the walk could not read or not examine, as
\* far as the walk has met them.
FailedDirs == walk.failed

\* The files the walk yields when every directory can be listed and
\* searched, by the tests of walk_files: no hidden component, no ignored
\* ancestor, a directory within max_depth, a suffix outside
\* IGNORE_EXTENSIONS and a name and path should_ignore lets through.
Walkable(max_depth, patterns) ==
    {e.path : e \in {x \in tree :
        /\ x.kind = "file"
        /\ ~ HasHiddenComponent(x.path)
        /\ Len(x.path) - 1 <= max_depth
        /\ \A k \in 1..(Len(x.path) - 1) :
              ~ ShouldIgnore(x.path[k], SubSeq(x.path, 1, k), patterns)
        /\ Lower(Suffix(x.path[Len(x.path)])) \notin IGNORE_EXTENSIONS
        /\ ~ ShouldIgnore(x.path[Len(x.path)], x.path, patterns)}}

\* C33: when a directory cannot be listed or examined for lack of
\* permission, the walk does not raise into the scan, nothing below that
\* directory is yielded, and a finished walk has yielded every other file
\* it yields otherwise.
C33_ListingFailuresSwallowed ==
    /\ walk.pc # "raised"
    /\ \A i \in DOMAIN walk.yielded : ~ Below(walk.yielded[i], FailedDirs)
    /\ walk.pc = "done" =>
          {p \in Walkable(walk.max_depth, walk.patterns) : ~ Below(p, FailedDirs)}
             \subseteq {walk.yielded[i] : i \in DOMAIN walk.yielded}

\* The part of C33 the code meets: a walk that ends has yielded nothing
\* below a directory whose listing raised PermissionError, and every other
\* file.
C33_UnreadableSubtreeSkipped ==
    walk.pc = "done" =>
       /\ \A i \in DOMAIN walk.yielded : ~ Below(walk.yielded[i], FailedDirs)
       /\ {p \in Walkable(walk.max_depth, walk.patterns) : ~ Below(p, FailedDirs)}
             \subseteq {walk.yielded[i] : i \in DOMAIN walk.yielded}


\* The files the Walker is to yield: not hidden, no hidden or ignored
\* ancestor directory, within max_depth, a name that ends with no extension
\* of the deny-set, and not matched by the Ignore Policy.
ToBeYielded(max_depth, patterns) ==
    {e.path : e \in {x \in tree :
        /\ x.kind = "file"
        /\ ~ HasHiddenComponent(x.path)
        /\ Len(x.path) - 1 <= max_depth
        /\ \A k \in 1..(Len(x.path) - 1) :
              ~ ShouldIgnore(x.path[k], SubSeq(x.path, 1, k), patterns)
        /\ \A ext \in IGNORE_EXTENSIONS : ~ EndsWithExtension(x.path[Len(x.path)], ext)
        /\ ~ ShouldIgnore(x.path[Len(x.path)], x.path, patterns)}}

\* No path is yielded twice.
YieldedOnce == \A i, j \in DOMAIN walk.yielded : walk.yielded[i] = walk.yielded[j] => i = j

\* C32: for every tree whose directories can all be listed, a finished walk
\* has yielded each file that is not hidden, has no hidden or ignored
\* ancestor, has no deny-set extension and is not ignored, exactly once, and
\* nothing else, in whatever order the entries were listed.
C32_WalkerCompleteness ==
    (walk.pc = "done" /\ walk.failed = {}) =>
        /\ YieldedOnce
        /\ {walk.yielded[i] : i \in DOMAIN walk.yielded}
              = ToBeYielded(walk.max_depth, walk.patterns)

\* The part of C32 the code meets: with the deny-set of extensions read as
\* the code reads it, on the last dot-part of the name, the walk yields
\* exactly the files to be yielded, once each, in any order of the listings.
C32_CompleteForSuffixes ==
    (walk.pc = "done" /\ walk.failed = {}) =>
        /\ YieldedOnce
        /\ {walk.yielded[i] : i \in DOMAIN walk.yielded}
              = Walkable(walk.max_depth, walk.patterns)


\* Every chunk of the store belongs to a File record of the store, and the
\* shadow index holds the entries of the chunks and no other.
NoOrphans(store) ==
    /\ \A c \in store.chunks : \E f \in store.files : f.id = c.file_id
    /\ store.fts = {[rowid |-> c.id, content |-> c.content] : c \in store.chunks}

\* C34: in every store state reached through scans and clear, committed or
\* inside a transaction, every Chunk record's file_id is the id of an
\* existing File record; and a step that removes File records removes their
\* Chunk records and shadow entries with them.
C34_NoOrphanChunks ==
    /\ [](NoOrphans(committed) /\ NoOrphans(conn))
    /\ [][\A f \in {x \in committed.files : \A y \in committed'.files : y.id # x.id} :
             /\ \A c \in committed'.chunks : c.file_id # f.id
             /\ \A e \in committed'.fts : \E c \in committed'.chunks : c.id = e.rowid]_vars

\* A clear has removed the File record of a store that held chunks, and the
\* chunks with it.
C34_Witness ==
    /\ cli.command = "clear"
    /\ cli.output = "cleared"
    /\ committed.seq_files >= 1
    /\ committed.seq_chunks >= 1
    /\ committed.files = {}
    /\ committed.chunks = {}
    /\ committed.fts = {}


\* C35: at the end of every scan files_scanned = files_indexed +
\* files_skipped + the number of entries of errors, also when the step that
\* failed is the commit of a file.
C35_RunAccounting ==
    pc = "close" =>
        result.files_scanned
            = result.files_indexed + result.files_skipped + Len(result.errors)

\* The number of chunks the Chunker yields for the files of the set.
RECURSIVE ChunkSetSizes(_)
ChunkSetSizes(paths) ==
    IF paths = {} THEN 0
    ELSE LET p == CHOOSE q \in paths : TRUE
         IN  Cardinality(ChunkerOutput(DecodeIgnore(fs[p]), params.max_chunk_lines))
               + ChunkSetSizes(paths \ {p})

\* C36: at the end of every scan chunks_created is the number of Chunk
\* records the run durably added to the store, and the sum of the chunk-set
\* sizes of the files the run counted in files_indexed.
C36_ChunksCreatedFaithful ==
    pc = "close" =>
        /\ result.chunks_created
              = Cardinality({c \in committed.chunks : c.id > hist.store0.seq_chunks})
        /\ result.chunks_created
              = ChunkSetSizes({p \in Paths : hist.outcome[p] = "indexed"})

\* The part of C36 the code meets: in a run without error, chunks_created
\* is both numbers.
C36_FaithfulWithoutErrors ==
    (pc = "close" /\ result.errors = <<>>) =>
        /\ result.chunks_created
              = Cardinality({c \in committed.chunks : c.id > hist.store0.seq_chunks})
        /\ result.chunks_created
              = ChunkSetSizes({p \in Paths : hist.outcome[p] = "indexed"})

\* The part of C35 the code meets: the three counters add up when no commit
\* failed, and a file whose commit failed is counted twice, as indexed and
\* as errored.
C35_AccountingUpToCommitFailures ==
    pc = "close" =>
        /\ result.files_scanned
              <= result.files_indexed + result.files_skipped + Len(result.errors)
        /\ result.files_scanned
              = Cardinality({p \in Paths : hist.outcome[p] = "indexed"})
                  + result.files_skipped + Len(result.errors)


\* A pass of `for chunk in chunks` that inserted a chunk.
InsertsChunk == pc = "insert" /\ result'.chunks_created = result.chunks_created + 1

\* The ids of the chunks the step adds to the scanning connection.
NewChunkIds == {c.id : c \in conn'.chunks} \ {c.id : c \in conn.chunks}

\* C37 as worded: every chunk inserted receives an id strictly greater than
\* every chunk id assigned before.
C37_IdsAboveEveryAssignedId ==
    [][InsertsChunk => \A id \in NewChunkIds : id > hist.assigned]_vars

\* C37: every chunk inserted receives an id strictly greater than the id of
\* every chunk ever committed, those since deleted by a re-index or by clear
\* included, and than every id assigned before in the same transaction; the
\* committed id counter never goes back.  So the id of a chunk a search has
\* returned never identifies another chunk later.
C37_ChunkIdsNeverReused ==
    /\ [](\A c \in committed.chunks : c.id <= committed.seq_chunks)
    /\ [][committed'.seq_chunks >= committed.seq_chunks]_vars
    /\ [][InsertsChunk =>
            /\ NewChunkIds # {}
            /\ \A id \in NewChunkIds :
                  /\ id > committed.seq_chunks
                  /\ id > conn.seq_chunks
                  /\ \A c \in conn.chunks \cup committed.chunks : id > c.id]_vars

\* A chunk has been committed with an id above 1 after the chunk of id 1
\* was deleted, by a re-index or by clear.
C37_Witness ==
    /\ \E c \in committed.chunks : c.id >= 2
    /\ \A c \in committed.chunks : c.id # 1


(***************************************************************************)
(* src/ralph: the context store (db/__init__.py) called by two processes,  *)
(* and the capture hook (hooks/capture.py).  Every operation of the store  *)
(* opens its own connection in a get_connection scope.                     *)
(***************************************************************************)
MaxObservations == 2

SessionIds == {"s"}

AttributeError == "AttributeError"

\* get_current_project_path: os.environ["CWD"] or os.getcwd(), a str.
GetCurrentProjectPath == "/p"

\* get_session_id: `project_path.name` is evaluated on the value
\* get_current_project_path returned; a str has no attribute `name`.
GetSessionId(project_path) ==
    IF project_path \in STRING THEN AttributeError ELSE project_path.name

Plus(a, b) == [tables       |-> a.tables \cup b.tables,
               sessions     |-> a.sessions \cup b.sessions,
               observations |-> a.observations \cup b.observations]

\* What the connection of process p reads: the committed rows and the rows
\* of its own open transaction.
SeenSessions(p) == ctx.sessions \cup ctx.proc[p].pending.sessions

\* A direct call of one operation of the store.
Call(p, op) ==
    /\ ctx.proc[p].pc = "idle"
    /\ ctx' = [ctx EXCEPT !.proc[p] = [NoProc EXCEPT !.op = op, !.pc = "call"]]
    /\ UNCHANGED <<gen, scanVars, tree, walk, srch, cli>>

\* get_connection up to its yield: sqlite3.connect and the journal_mode
\* pragma create the store file when it is missing.
Open(p) ==
    /\ ctx.proc[p].pc = "call"
    /\ ctx' = [ctx EXCEPT !.file = TRUE,
                          !.proc[p] = [@ EXCEPT !.pc = "body", !.i = 1, !.pending = NoWrites,
                                                !.made = NoWrites, !.durable = NoWrites,
                                                !.exc = FALSE, !.closed = FALSE, !.out = "none"]]
    /\ UNCHANGED <<gen, scanVars, tree, walk, srch, cli>>

\* init_database: executescript runs the statements of the schema outside
\* any transaction, each one durable as soon as it has run.
InitStatement(p) ==
    LET me == ctx.proc[p]
        t  == {SchemaTables[me.i]} \ ctx.tables
    IN  /\ me.pc = "body"
        /\ me.op = "init"
        /\ ctx' = [ctx EXCEPT !.tables = @ \cup t,
                              !.proc[p] = [@ EXCEPT !.i = @ + 1,
                                                    !.made.tables = @ \cup t,
                                                    !.durable.tables = @ \cup t,
                                                    !.pc = IF me.i = Len(SchemaTables)
                                                           THEN "commit" ELSE "body"]]
        /\ UNCHANGED <<gen, scanVars, tree, walk, srch, cli>>

\* get_session: the row of the id, or None.
GetSession(p, sid) ==
    LET me == ctx.proc[p]
    IN  /\ me.pc = "body"
        /\ me.op = "get"
        /\ "sessions" \in ctx.tables
        /\ ctx' = [ctx EXCEPT !.proc[p] = [@ EXCEPT !.out = IF sid \in SeenSessions(p)
                                                             THEN "found" ELSE "None",
                                                    !.pc = "commit"]]
        /\ UNCHANGED <<gen, scanVars, tree, walk, srch, cli>>

\* create_session: INSERT INTO sessions, under the write lock; the id is the
\* key of the table.
CreateSession(p, sid) ==
    LET me == ctx.proc[p]
    IN  /\ me.pc = "body"
        /\ me.op = "create"
        /\ "sessions" \in ctx.tables
        /\ ctx.lock \in {0, p}
        /\ sid \notin SeenSessions(p)
        /\ ctx' = [ctx EXCEPT !.lock = p,
                              !.proc[p] = [@ EXCEPT !.pending.sessions = @ \cup {sid},
                                                    !.made.sessions = @ \cup {sid},
                                                    !.out = "None",
                                                    !.pc = "commit"]]
        /\ UNCHANGED <<gen, scanVars, tree, walk, srch, cli>>

\* add_observation: INSERT INTO observations, under the write lock, of a
\* row that refers to its session; returns cursor.lastrowid.
AddObservation(p, sid) ==
    LET me == ctx.proc[p]
        id == ctx.seq + 1
    IN  /\ me.pc = "body"
        /\ me.op = "add"
        /\ "observations" \in ctx.tables
        /\ ctx.lock \in {0, p}
        /\ sid \in SeenSessions(p)
        /\ ctx.seq < MaxObservations
        /\ ctx' = [ctx EXCEPT !.lock = p,
                              !.proc[p] = [@ EXCEPT !.pending.observations = @ \cup {id},
                                                    !.made.observations = @ \cup {id},
                                                    !.out = id,
                                                    !.pc = "commit"]]
        /\ UNCHANGED <<gen, scanVars, tree, walk, srch, cli>>

\* A statement of the body raises: no such table, a constraint, a lock
\* another connection holds past the timeout, an I/O error.
BodyRaises(p) ==
    /\ ctx.proc[p].pc = "body"
    /\ ctx' = [ctx EXCEPT !.proc[p] = [@ EXCEPT !.exc = TRUE, !.pc = "rollback"]]
    /\ UNCHANGED <<gen, scanVars, tree, walk, srch, cli>>

\* get_connection after the yield, no exception: conn.commit().
Commit(p) ==
    LET me == ctx.proc[p]
        ids == me.pending.observations
    IN  /\ me.pc = "commit"
        /\ ctx' = [ctx EXCEPT !.sessions = @ \cup me.pending.sessions,
                              !.observations = @ \cup ids,
                              !.seq = IF ids = {} THEN @ ELSE CHOOSE m \in ids : \A k \in ids : k <= m,
                              !.lock = IF @ = p THEN 0 ELSE @,
                              !.proc[p] = [@ EXCEPT !.durable = Plus(@, me.pending),
                                                    !.pending = NoWrites,
                                                    !.pc = "close"]]
        /\ UNCHANGED <<gen, scanVars, tree, walk, srch, cli>>

\* conn.commit() raises: control passes to the except clause.
CommitRaises(p) ==
    /\ ctx.proc[p].pc = "commit"
    /\ ctx' = [ctx EXCEPT !.proc[p] = [@ EXCEPT !.exc = TRUE, !.pc = "rollback"]]
    /\ UNCHANGED <<gen, scanVars, tree, walk, srch, cli>>

\* except Exception: conn.rollback(), then the exception is raised again.
Rollback(p) ==
    /\ ctx.proc[p].pc = "rollback"
    /\ ctx' = [ctx EXCEPT !.lock = IF @ = p THEN 0 ELSE @,
                          !.proc[p] = [@ EXCEPT !.pending = NoWrites, !.pc = "close"]]
    /\ UNCHANGED <<gen, scanVars, tree, walk, srch, cli>>

\* The next call of a process: another operation with its stage of
\* capture_tool_use, or the end of the call with its outcome.
Goto(me, op, stage) == [me EXCEPT !.op = op, !.caller = stage, !.pc = "call", !.closed = TRUE]
Finish(me, out) == [me EXCEPT !.pc = "done", !.closed = TRUE, !.out = out]

\* Where capture_tool_use goes when one of its calls of the store ends.
CaptureNext(me) ==
    CASE me.caller = "init"   -> IF me.exc THEN Finish(me, "raised")
                                 ELSE [me EXCEPT !.op = "capture", !.pc = "session_id", !.closed = TRUE]
      [] me.caller = "get"    -> IF me.exc THEN Goto(me, "create", "create_except")
                                 ELSE IF me.out = "found" THEN Goto(me, "add", "add")
                                 ELSE Goto(me, "create", "create_try")
      [] me.caller = "create_try"    -> IF me.exc THEN Goto(me, "create", "create_except")
                                        ELSE Goto(me, "add", "add")
      [] me.caller = "create_except" -> IF me.exc THEN Finish(me, "raised")
                                        ELSE Goto(me, "add", "add")
      [] me.caller = "add"    -> IF me.exc THEN Finish(me, "raised") ELSE Finish(me, me.out)

\* finally: conn.close(); the scope ends and the operation returns or
\* raises to its caller.
Close(p) ==
    LET me == ctx.proc[p]
    IN  /\ me.pc = "close"
        /\ ctx' = [ctx EXCEPT !.proc[p] =
                     IF me.caller = "none"
                     THEN Finish(me, IF me.exc THEN "raised" ELSE me.out)
                     ELSE CaptureNext(me)]
        /\ UNCHANGED <<gen, scanVars, tree, walk, srch, cli>>

\* capture_tool_use up to get_session_id: init_database when the store file
\* does not exist.
CaptureStart(p) ==
    /\ ctx.proc[p].pc = "idle"
    /\ ctx' = [ctx EXCEPT !.proc[p] =
                 IF ctx.file
                 THEN [NoProc EXCEPT !.op = "capture", !.pc = "session_id"]
                 ELSE [NoProc EXCEPT !.op = "init", !.caller = "init", !.pc = "call"]]
    /\ UNCHANGED <<gen, scanVars, tree, walk, srch, cli>>

\* session_id = get_session_id(): an exception ends capture_tool_use;
\* otherwise the session is looked up.
CaptureSessionId(p) ==
    LET me == ctx.proc[p]
        session_id == GetSessionId(GetCurrentProjectPath)
    IN  /\ me.pc = "session_id"
        /\ ctx' = [ctx EXCEPT !.proc[p] =
                     IF session_id = AttributeError
                     THEN Finish(me, "raised")
                     ELSE Goto(me, "get", "get")]
        /\ UNCHANGED <<gen, scanVars, tree, walk, srch, cli>>

\* The process is ready for its next call.
Ready(p) ==
    /\ ctx.proc[p].pc = "done"
    /\ ctx' = [ctx EXCEPT !.proc[p] = NoProc]
    /\ UNCHANGED <<gen, scanVars, tree, walk, srch, cli>>

InitContext ==
    /\ gen = IdleGen
    /\ WalkIdle
    /\ SearchIdle
    /\ CliIdle
    /\ CtxIdle
    /\ fs = [p \in Paths |-> Absent]
    /\ committed = EmptyStore
    /\ conn = EmptyStore
    /\ pc = "idle"
    /\ params = NoParams
    /\ walker = {}
    /\ cur = NoCur
    /\ result = NewResult
    /\ hist = NewHist
    /\ held = {}

NextContext ==
    \E p \in Procs :
        \/ \E op \in {"init", "get", "create", "add"} : Call(p, op)
        \/ Open(p)
        \/ InitStatement(p)
        \/ \E sid \in SessionIds : GetSession(p, sid)
        \/ \E sid \in SessionIds : CreateSession(p, sid)
        \/ \E sid \in SessionIds : AddObservation(p, sid)
        \/ BodyRaises(p)
        \/ Commit(p)
        \/ CommitRaises(p)
        \/ Rollback(p)
        \/ Close(p)
        \/ CaptureStart(p)
        \/ CaptureSessionId(p)
        \/ Ready(p)

SpecContext == InitContext /\ [][NextContext]_vars


\* C38: when capture_tool_use has ended, it has returned the id of an
\* observation it added, and exactly one session record exists for its
\* session id.
C38_CaptureRecordsObservation ==
    \A p \in Procs :
        (ctx.proc[p].pc = "done" /\ (ctx.proc[p].op = "capture" \/ ctx.proc[p].caller # "none"))
        => /\ ctx.proc[p].out \in ctx.observations
           /\ ctx.sessions # {}

\* C39: when a get_connection scope reaches the end of its finally clause,
\* either no exception is in flight and every write it made is durable, or
\* one is in flight and none is; afterwards the connection is closed, and an
\* exception has propagated to the caller.
C39_ScopeAllOrNothing ==
    /\ [](\A p \in Procs :
            ctx.proc[p].pc = "close"
            => ctx.proc[p].durable = (IF ctx.proc[p].exc THEN NoWrites ELSE ctx.proc[p].made))
    /\ [](\A p \in Procs : ctx.proc[p].pc \in {"idle", "call", "session_id", "done"}
                              => ctx.proc[p].closed)
    /\ [][\A p \in Procs :
            (ctx.proc[p].pc = "close" /\ ctx.proc[p].caller = "none" /\ ctx.proc[p].exc
               /\ ctx'.proc[p] # ctx.proc[p])
            => ctx'.proc[p].pc = "done" /\ ctx'.proc[p].out = "raised"]_vars

\* The scopes that write with conn.execute are all-or-nothing.
C39_ExecuteScopesAllOrNothing ==
    /\ [](\A p \in Procs :
            (ctx.proc[p].pc = "close" /\ ctx.proc[p].op # "init")
            => ctx.proc[p].durable = (IF ctx.proc[p].exc THEN NoWrites ELSE ctx.proc[p].made))
    /\ [](\A p \in Procs : ctx.proc[p].pc \in {"idle", "call", "session_id", "done"}
                              => ctx.proc[p].closed)
    /\ [][\A p \in Procs :
            (ctx.proc[p].pc = "close" /\ ctx.proc[p].caller = "none" /\ ctx.proc[p].exc
               /\ ctx'.proc[p] # ctx.proc[p])
            => ctx'.proc[p].pc = "done" /\ ctx'.proc[p].out = "raised"]_vars

\* A scope has rolled back a write it made, and another has committed one.
C39_Witness ==
    /\ \E p \in Procs : /\ ctx.proc[p].pc = "close" /\ ctx.proc[p].exc
                        /\ ctx.proc[p].made # NoWrites /\ ctx.proc[p].op # "init"
    /\ ctx.observations # {}

=============================================================================
